---- MODULE Spec2Model ----
(***************************************************************************)
(* A model of tk_image_viewer: the metadata report (src/metadata.py) and   *)
(* the container loading and browsing state machine (src/main.py).         *)
(*                                                                         *)
(* Byte strings are sequences of integers 0..255.  Text is a sequence of   *)
(* tokens: a token is a string standing for one character ("A", "\n",      *)
(* NUL) or for a literal piece of text that holds no NUL ("EXIF:").        *)
(*                                                                         *)
(* A Python call either returns a value or raises: Ret(v) and Raise(e).    *)
(***************************************************************************)
EXTENDS Integers, Sequences, FiniteSets, TLC

\* arg, ret: the arguments of a function called on its own and what the call
\* did: NoRet, Ret(value) or Raise(exception).  The others are the running
\* viewer: APP, the attributes of the application object; title, the text of
\* the title bar, which an error also gives the error overlay; ERROR_OVERLAY,
\* whether the overlay is lifted; CANVAS, the text of the info overlay;
\* open_archives, the archive files the process holds open; timers, the
\* callbacks scheduled with APP.after; last, what the last handler did.
VARIABLES arg, ret, APP, title, ERROR_OVERLAY, CANVAS, open_archives, timers, last

callvars == <<arg, ret>>
appvars == <<APP, title, ERROR_OVERLAY, CANVAS, open_archives, timers, last>>
vars == <<arg, ret, APP, title, ERROR_OVERLAY, CANVAS, open_archives, timers, last>>

\* The viewer is not running while one function is called on its own.
NotRunning ==
    /\ APP = <<>>
    /\ title = <<>>
    /\ ERROR_OVERLAY = <<>>
    /\ CANVAS = <<>>
    /\ open_archives = 0
    /\ timers = {}
    /\ last = <<>>

\* ---------------------------------------------------------------- bounds

\* Longest payload (after an 8-byte marker) of the byte strings decoded.
MaxBytes == 3
\* Longest EXIF dictionary drawn for info_exif.
MaxTags == 2
\* Largest number typed into the Index dialog, with either sign.
MaxIndex == 5
\* The most digits in one run of a name.
MaxRun == 2
\* The most parts of an MHTML document.
MaxParts == 2
\* The most tags inside the root tag of an SVG document.
MaxInner == 1
\* The most callbacks of slideshow_run followed while pending.
MaxPending == 2

\* ------------------------------------------------------- calls and values

NoRet == [st |-> "none"]
Ret(v) == [st |-> "returned", value |-> v]
Raise(e) == [st |-> "raised", exc |-> e]

Returned(r) == r.st = "returned"
Raised(r) == r.st = "raised"

\* Python values handed to info_decode and the f-strings.
PyBytes(b) == [kind |-> "bytes", val |-> b]
PyInt(n) == [kind |-> "int", val |-> n]
PyText(s) == [kind |-> "str", val |-> s]
PyDict(d) == [kind |-> "dict", val |-> d]
PyIcc(p) == [kind |-> "icc", val |-> p]

NUL == "NUL"
NL == "\n"

\* name = v followed by the statements F: the value is worked out once.
With(v, F(_)) == F(v)

\* ------------------------------------------------------------ sequences

StartsWith(b, p) == Len(b) >= Len(p) /\ SubSeq(b, 1, Len(p)) = p

\* b[n:]
Drop(b, n) == SubSeq(b, n + 1, Len(b))

RECURSIVE Concat(_)
Concat(ss) == IF ss = <<>> THEN <<>> ELSE Head(ss) \o Concat(Tail(ss))

\* The least member of a set of numbers.
Least(S) == CHOOSE i \in S : \A j \in S : i <= j

RECURSIVE SeqsUpTo(_, _)
\* All sequences over S of length 0..n.
SeqsUpTo(S, n) ==
    IF n = 0 THEN {<<>>}
    ELSE LET shorter == SeqsUpTo(S, n - 1)
         IN shorter \cup {Append(s, x) : s \in {t \in shorter : Len(t) = n - 1}, x \in S}

\* ------------------------------------------------------------- codecs

\* One character of decoded text as a token.
Chr(c) ==
    CASE c = 0 -> NUL
      [] c = 10 -> NL
      [] c = 32 -> " "
      [] c = 65 -> "A"
      [] c = 66 -> "B"
      [] c = 127 -> "DEL"
      [] OTHER -> "U+" \o ToString(c)

ChrAll(cs) == [i \in 1..Len(cs) |-> Chr(cs[i])]

DecOk(cs) == [ok |-> TRUE, s |-> cs]
DecFail == [ok |-> FALSE]

\* bytes.decode("ascii"): every byte must be below 128.
DecodeAscii(b) ==
    IF \A i \in 1..Len(b) : b[i] < 128 THEN DecOk(b) ELSE DecFail

\* bytes.decode("latin1"): every byte is its own code point.
DecodeLatin1(b) == DecOk(b)

IsHighSurrogate(u) == u >= 55296 /\ u <= 56319
IsLowSurrogate(u) == u >= 56320 /\ u <= 57343

RECURSIVE Utf16Scan(_, _)
\* The code points of a sequence of UTF-16 code units, or DecFail.
Utf16Scan(us, i) ==
    IF i > Len(us) THEN DecOk(<<>>)
    ELSE IF IsLowSurrogate(us[i]) THEN DecFail
    ELSE IF IsHighSurrogate(us[i])
         THEN IF i + 1 <= Len(us) /\ IsLowSurrogate(us[i + 1])
              THEN LET rest == Utf16Scan(us, i + 2)
                       cp == 65536 + (us[i] - 55296) * 1024 + (us[i + 1] - 56320)
                   IN IF rest.ok THEN DecOk(<<cp>> \o rest.s) ELSE DecFail
              ELSE DecFail
    ELSE LET rest == Utf16Scan(us, i + 1)
         IN IF rest.ok THEN DecOk(<<us[i]>> \o rest.s) ELSE DecFail

\* bytes.decode("utf-16-be") / ("utf-16-le"): an odd length is truncated data.
DecodeUtf16(b, big) ==
    IF Len(b) % 2 = 1 THEN DecFail
    ELSE LET us == [i \in 1..(Len(b) \div 2) |->
                       IF big THEN b[2 * i - 1] * 256 + b[2 * i]
                       ELSE b[2 * i] * 256 + b[2 * i - 1]]
         IN Utf16Scan(us, 1)

IsCont(c) == c >= 128 /\ c <= 191

\* The number of continuation bytes a UTF-8 lead byte asks for (-1: no lead).
Utf8Need(c) ==
    IF c < 128 THEN 0
    ELSE IF c >= 194 /\ c <= 223 THEN 1
    ELSE IF c >= 224 /\ c <= 239 THEN 2
    ELSE IF c >= 240 /\ c <= 244 THEN 3
    ELSE -1

\* The range the first continuation byte must lie in (no overlong forms, no
\* surrogates, nothing above U+10FFFF).
Utf8FirstOk(c, d) ==
    CASE c = 224 -> d >= 160 /\ d <= 191
      [] c = 237 -> d >= 128 /\ d <= 159
      [] c = 240 -> d >= 144 /\ d <= 191
      [] c = 244 -> d >= 128 /\ d <= 143
      [] OTHER -> IsCont(d)

RECURSIVE Utf8Scan(_, _)
Utf8Scan(b, i) ==
    IF i > Len(b) THEN DecOk(<<>>)
    ELSE LET c == b[i]
             n == Utf8Need(c)
         IN IF n = -1 \/ i + n > Len(b) THEN DecFail
            ELSE IF n >= 1 /\ ~Utf8FirstOk(c, b[i + 1]) THEN DecFail
            ELSE IF \E k \in 2..n : ~IsCont(b[i + k]) THEN DecFail
            ELSE LET lead == CASE n = 0 -> c
                               [] n = 1 -> c - 192
                               [] n = 2 -> c - 224
                               [] OTHER -> c - 240
                     cp == CASE n = 0 -> lead
                             [] n = 1 -> lead * 64 + (b[i + 1] - 128)
                             [] n = 2 -> (lead * 64 + (b[i + 1] - 128)) * 64
                                         + (b[i + 2] - 128)
                             [] OTHER -> ((lead * 64 + (b[i + 1] - 128)) * 64
                                          + (b[i + 2] - 128)) * 64 + (b[i + 3] - 128)
                     rest == Utf8Scan(b, i + n + 1)
                 IN IF rest.ok THEN DecOk(<<cp>> \o rest.s) ELSE DecFail

DecodeUtf8(b) == Utf8Scan(b, 1)

\* Windows code page 1252, the "ansi" (mbcs) codec of a western Windows: every
\* byte decodes; the bytes from 128 up give characters outside ASCII.
DecodeCp1252(b) ==
    DecOk([i \in 1..Len(b) |-> IF b[i] = 128 THEN 8364 ELSE b[i]])

\* The codec names Python knows everywhere, normalised (utf_16_be = utf-16-be).
CodecNames == {"ascii", "latin1", "utf-16-be", "utf-16-le", "utf8"}

NormCodec(name) ==
    CASE name = "utf_16_be" -> "utf-16-be"
      [] name = "utf_16_le" -> "utf-16-le"
      [] OTHER -> name

\* "ansi" is an alias of mbcs on Windows only; elsewhere the lookup fails.
CodecKnown(name, windows) ==
    NormCodec(name) \in CodecNames \/ (name = "ansi" /\ windows)

\* bytes.decode(name) for a known codec.
Decode(b, name, windows) ==
    With(NormCodec(name), LAMBDA codec :
      CASE codec = "ascii" -> DecodeAscii(b)
        [] codec = "latin1" -> DecodeLatin1(b)
        [] codec \in {"utf-16-be", "utf-16-le"} -> DecodeUtf16(b, codec = "utf-16-be")
        [] codec = "utf8" -> DecodeUtf8(b)
        [] OTHER -> DecodeCp1252(b))

\* bytes.decode(name) as a call: empty bytes decode to "" before the codec is
\* looked up; then LookupError for an unknown codec, UnicodeDecodeError for
\* bytes the codec rejects.
DecodeCall(b, name, windows) ==
    IF b = <<>> THEN Ret(<<>>)
    ELSE IF ~CodecKnown(name, windows) THEN Raise("LookupError")
    ELSE With(Decode(b, name, windows), LAMBDA d :
           IF d.ok THEN Ret(ChrAll(d.s)) ELSE Raise("UnicodeDecodeError"))

\* ------------------------------------------------------- info_decode

ASCII_MARK == <<65, 83, 67, 73, 73, 0, 0, 0>>
UNICODE_MARK == <<85, 78, 73, 67, 79, 68, 69, 0>>

Digit(d) ==
    CASE d = 0 -> "0" [] d = 1 -> "1" [] d = 2 -> "2" [] d = 3 -> "3"
      [] d = 4 -> "4" [] d = 5 -> "5" [] d = 6 -> "6" [] d = 7 -> "7"
      [] d = 8 -> "8" [] OTHER -> "9"

RECURSIVE StrNat(_)
\* str(n) of a natural number: its decimal digits.
StrNat(n) == IF n < 10 THEN <<Digit(n)>> ELSE StrNat(n \div 10) \o <<Digit(n % 10)>>

\* str(n) of an integer.
StrInt(n) == IF n < 0 THEN <<"-">> \o StrNat(0 - n) ELSE StrNat(n)

\* str(v) of a value that is not bytes.
PyStr(v) == IF v.kind = "int" THEN StrInt(v.val) ELSE v.val

RECURSIVE SubNonPrintable(_, _)
\* re.sub("[^\x20-\x7F]+", " ", s) on code points: each run of characters
\* outside 0x20..0x7F becomes one space.
SubNonPrintable(cs, inRun) ==
    IF cs = <<>> THEN <<>>
    ELSE IF Head(cs) >= 32 /\ Head(cs) <= 127
         THEN <<Head(cs)>> \o SubNonPrintable(Tail(cs), FALSE)
         ELSE (IF inRun THEN <<>> ELSE <<32>>) \o SubNonPrintable(Tail(cs), TRUE)

RECURSIVE TryDecodings(_, _, _)
\* The loop of info_decode over the encodings: the first that decodes is
\* returned, a UnicodeDecodeError moves on to the next, any other exception
\* leaves the loop and the function.  NoRet: every one failed.
TryDecodings(b, encs, windows) ==
    IF encs = <<>> THEN NoRet
    ELSE With(DecodeCall(b, Head(encs), windows), LAMBDA r :
           IF Raised(r) /\ r.exc = "UnicodeDecodeError"
           THEN TryDecodings(b, Tail(encs), windows)
           ELSE r)

\* The last line of info_decode: the permissive "ansi" path.
DecodeAnsi(b, windows) ==
    IF b = <<>> THEN Ret(<<>>)
    ELSE IF ~CodecKnown("ansi", windows) THEN Raise("LookupError")
    ELSE Ret(ChrAll(SubNonPrintable(DecodeCp1252(b).s, FALSE)))

info_decode(v, encoding, windows) ==
    IF v.kind # "bytes" THEN Ret(PyStr(v))
    ELSE IF StartsWith(v.val, ASCII_MARK)
         THEN DecodeCall(Drop(v.val, 8), "ascii", windows)
    ELSE With(IF StartsWith(v.val, UNICODE_MARK)
              THEN TryDecodings(Drop(v.val, 8),
                                <<"utf-16-be", "utf-16-le", encoding, "utf8">>, windows)
              ELSE NoRet,
              LAMBDA r :
           IF r # NoRet THEN r
           ELSE DecodeAnsi(IF StartsWith(v.val, UNICODE_MARK) THEN Drop(v.val, 8)
                           ELSE v.val, windows))

\* --------------------------------------------------- Python helpers

\* A dict is a sequence of items [k, v] in insertion order.
Has(d, k) == \E i \in 1..Len(d) : d[i].k = k
Get(d, k) == d[CHOOSE i \in 1..Len(d) : d[i].k = k].v

\* Whether p occurs in b as a contiguous run: p in b.
Contains(b, p) ==
    \E i \in 1..(Len(b) - Len(p) + 1) : SubSeq(b, i, i + Len(p) - 1) = p

\* b[:n]
Take(b, n) == SubSeq(b, 1, IF n < Len(b) THEN n ELSE Len(b))

RECURSIVE FromBytesBig(_)
\* int.from_bytes(b, "big")
FromBytesBig(b) ==
    IF b = <<>> THEN 0 ELSE FromBytesBig(SubSeq(b, 1, Len(b) - 1)) * 256 + b[Len(b)]

Reverse(b) == [i \in 1..Len(b) |-> b[Len(b) + 1 - i]]

\* int.from_bytes(b, byteorder)
FromBytes(b, byteorder) ==
    IF byteorder = "big" THEN FromBytesBig(b) ELSE FromBytesBig(Reverse(b))

Whitespace == {" ", NL, "\r", "\t"}

\* str.strip(): leading and trailing whitespace removed (NUL is none).
Strip(s) ==
    LET kept == {i \in 1..Len(s) : s[i] \notin Whitespace}
    IN IF kept = {} THEN <<>>
       ELSE SubSeq(s, CHOOSE i \in kept : \A j \in kept : i <= j,
                   CHOOSE i \in kept : \A j \in kept : j <= i)

\* Whether repr shows the byte as \xNN.
IsHexEscaped(c) == (c < 32 /\ c \notin {9, 10, 13}) \/ c >= 127

\* One byte in the repr of a bytes value: itself when printable, else \xNN.
ReprByte(c) == IF IsHexEscaped(c) THEN "\\x" \o ToString(c) ELSE Chr(c)

\* repr of a bytes value, as f"{v}" and str(v) give it: b'...' with every
\* byte outside printable ASCII escaped, so it never holds a NUL.
ReprBytes(b) == <<"b'">> \o [i \in 1..Len(b) |-> ReprByte(b[i])] \o <<"'">>

\* f"{v}"
PyFormat(v) ==
    CASE v.kind = "int" -> StrInt(v.val)
      [] v.kind = "bytes" -> ReprBytes(v.val)
      [] OTHER -> v.val

\* ---------------------------------------------------------- info_exif

\* EXIF_TAGS: ExifTags.TAGS and the five added tags, for the tags drawn here.
\* "": the tag is in neither.
EXIF_TAGS(k) ==
    CASE k = 271 -> "Make"
      [] k = 274 -> "Orientation"
      [] k = 296 -> "ResolutionUnit"
      [] k = 531 -> "YCbCrPositioning"
      [] k = 769 -> "Exif 0x0301"
      [] k = 771 -> "Rendering Intent"
      [] k = 37121 -> "ComponentsConfiguration"
      [] k = 37510 -> "UserComment"
      [] k = 40961 -> "ColorSpace"
      [] k = 41990 -> "SceneCaptureType"
      [] OTHER -> ""

RENDERING_INTENT ==
    <<"Perceptual", "Relative colorimetric", "Saturation", "Absolute colorimetric">>

\* The labels with those of 6 and 8 exchanged.
OrientationsSwapped ==
    <<"", "normal", "flip left right", "rotate 180", "flip top bottom",
      "transpose", "rotate 270", "transverse", "rotate 90">>

ORIENTATIONS ==
    <<"", "normal", "flip left right", "rotate 180", "flip top bottom",
      "transpose", "rotate 90", "transverse", "rotate 270">>

COMPONENTS == <<"-", "Y", "Cb", "Cr", "R", "G", "B">>

\* tuple[i] of Python: a negative i counts from the end, IndexError outside.
TupleIndex(t, i) ==
    IF i < -Len(t) \/ i >= Len(t) THEN Raise("IndexError")
    ELSE LET e == t[(IF i < 0 THEN Len(t) + i ELSE i) + 1]
         IN Ret(PyText(IF e = "" THEN <<>> ELSE <<e>>))

\* {..}.get(v, v) of the small lookup tables.
DictGet(pairs, v) ==
    IF v.kind = "int" /\ Has(pairs, v.val) THEN PyText(<<Get(pairs, v.val)>>) ELSE v

\* The value of one EXIF item as info_exif interprets it: Ret(value) or the
\* exception of the branch taken.
ExifValue(k, v, byte_order, windows) ==
    LET key_name == EXIF_TAGS(k) IN
    CASE key_name = "ColorSpace" ->
            Ret(DictGet(<<[k |-> 1, v |-> "sRGB"], [k |-> 65535, v |-> "uncalibrated"]>>, v))
      [] key_name = "ComponentsConfiguration" ->
            IF v.kind # "bytes" THEN Raise("TypeError")
            ELSE IF \A i \in 1..Len(v.val) : v.val[i] < Len(COMPONENTS)
                 THEN Ret(PyText([i \in 1..Len(v.val) |-> COMPONENTS[v.val[i] + 1]]))
                 ELSE Ret(v)
      [] key_name = "Orientation" ->
            IF v.kind # "int" THEN Raise("TypeError") ELSE TupleIndex(ORIENTATIONS, v.val)
      [] k = 771 ->
            IF v.kind # "bytes" THEN Raise("TypeError")
            ELSE TupleIndex(RENDERING_INTENT, FromBytes(v.val, byte_order))
      [] key_name = "ResolutionUnit" ->
            Ret(DictGet(<<[k |-> 2, v |-> "inch"], [k |-> 3, v |-> "cm"]>>, v))
      [] key_name = "SceneCaptureType" ->
            Ret(DictGet(<<[k |-> 0, v |-> "standard"], [k |-> 1, v |-> "landscape"],
                          [k |-> 2, v |-> "portrait"], [k |-> 3, v |-> "night scene"]>>, v))
      [] key_name = "YCbCrPositioning" ->
            Ret(DictGet(<<[k |-> 1, v |-> "centered"], [k |-> 2, v |-> "co-sited"]>>, v))
      [] OTHER ->
            IF v.kind = "bytes" /\ Len(v.val) < 5
            THEN Ret(PyInt(FromBytes(v.val, byte_order)))
            ELSE With(info_decode(v, IF byte_order = "big" THEN "utf_16_be"
                                     ELSE "utf_16_le", windows),
                      LAMBDA d : IF Returned(d) THEN Ret(PyText(d.value)) ELSE d)

RECURSIVE ExifLines(_, _, _, _)
\* The loop of info_exif over exif.items(), from item i on, s being the text
\* so far: Ret(s) at the end, or the exception that ended it.
ExifLines(exif, i, s, env) ==
    IF i > Len(exif) THEN Ret(s)
    ELSE LET k == exif[i].k
             v == exif[i].v
         IN IF EXIF_TAGS(k) = ""
            THEN ExifLines(exif, i + 1,
                           s \o <<NL, "Unknown EXIF tag ">> \o StrInt(k) \o <<": ">>
                             \o PyFormat(v), env)
            ELSE With(ExifValue(k, v, env.byte_order, env.windows), LAMBDA r :
                   IF Raised(r) THEN r
                   ELSE ExifLines(exif, i + 1,
                                  s \o <<NL, EXIF_TAGS(k), ": ">> \o PyFormat(r.value), env))

byte_order(blob) == IF Contains(Take(blob, 8), <<77, 77>>) THEN "big" ELSE "little"

info_exif(im, windows) ==
    IF ~im.has_getexif THEN Ret(<<>>)
    ELSE IF im.exif = <<>> THEN Ret(<<>>)
    ELSE IF ~Has(im.info, "exif") THEN Raise("KeyError")
    ELSE With(byte_order(Get(im.info, "exif").val), LAMBDA order :
         With(ExifLines(im.exif, 1,
                        <<"EXIF:", NL, "Byte order: ", order, "-endian">>,
                        [byte_order |-> order, windows |-> windows]),
              LAMBDA r : IF Raised(r) THEN r ELSE Ret(Strip(r.value))))

\* ------------------------------------------- the other extractors

\* info_icc: im.info.get("icc_profile") is absent, empty, bytes that are no
\* ICC profile (ImageCmsProfile raises OSError) or a profile whose header
\* holds a rendering intent.
info_icc(im) ==
    IF ~Has(im.info, "icc_profile") THEN Ret(<<>>)
    ELSE LET icc == Get(im.info, "icc_profile").val IN
         IF icc.empty THEN Ret(<<>>)
         ELSE IF ~icc.valid THEN Raise("OSError")
         ELSE IF icc.intent >= Len(RENDERING_INTENT) THEN Raise("IndexError")
         ELSE Ret(Strip(
                <<"ICC Profile:", NL, "Copyright: ">> \o Strip(icc.copyright)
                \o <<NL, "Description: ">> \o Strip(icc.description)
                \o <<NL, "Intent: ", RENDERING_INTENT[icc.intent + 1], NL,
                     "isIntentSupported: ", "1">>
                \o (IF Strip(icc.man) # <<>> THEN <<NL, "Manufacturer: ">> \o Strip(icc.man)
                    ELSE <<>>)
                \o (IF Strip(icc.model) # <<>> THEN <<NL, "Model: ">> \o Strip(icc.model)
                    ELSE <<>>)))

\* IIM_NAMES.get(k, k) for the records drawn here.
IIM_NAMES(k) ==
    CASE k = "(2, 90)" -> "cityName"
      [] k = "(2, 5)" -> "title"
      [] OTHER -> k

\* repr of a list of integers.
ReprInts(b) ==
    <<"[">> \o Concat([i \in 1..Len(b) |->
                         (IF i > 1 THEN <<", ">> ELSE <<>>) \o StrInt(b[i])]) \o <<"]">>

RECURSIVE IptcLines(_, _, _)
IptcLines(iptc, i, s) ==
    IF i > Len(iptc) THEN s
    ELSE LET k == iptc[i].k
             v == iptc[i].v
             line ==
                 CASE k = "(1, 90)" -> <<"Coded Character Set", ": ">> \o ReprInts(v.val)
                   [] k = "(2, 0)" ->
                        <<"Application Record Version", ": ">>
                        \o StrInt(FromBytes(v.val, "little"))
                   [] OTHER -> <<IIM_NAMES(k), ": ">> \o ReprBytes(v.val)
         IN IptcLines(iptc, i + 1, s \o <<NL>> \o line)

\* info_iptc: getiptcinfo(im) gives None or a dict of records.
info_iptc(im) ==
    IF im.iptc = <<>> THEN Ret(<<>>) ELSE Ret(Strip(IptcLines(im.iptc, 1, <<"IPTC:">>)))

RECURSIVE SubEscapeRuns(_)
\* re.sub(r"(\\x..){2,}", " ", str(v)) on what stands between b' and ': a run
\* of two or more \xNN escapes becomes one space.
SubEscapeRuns(bs) ==
    IF bs = <<>> THEN <<>>
    ELSE IF Len(bs) >= 2 /\ IsHexEscaped(bs[1]) /\ IsHexEscaped(bs[2])
         THEN LET n == CHOOSE m \in 2..Len(bs) :
                          /\ \A j \in 1..m : IsHexEscaped(bs[j])
                          /\ (m = Len(bs) \/ ~IsHexEscaped(bs[m + 1]))
              IN <<" ">> \o SubEscapeRuns(Drop(bs, n))
         ELSE <<ReprByte(Head(bs))>> \o SubEscapeRuns(Tail(bs))

PSD_RESOURCE_IDS(k) ==
    CASE k = 1036 -> <<"Thumbnail">>
      [] k = 1060 -> <<"XmpMetadata">>
      [] OTHER -> StrInt(k)

RECURSIVE PsdLines(_, _, _)
PsdLines(psd, i, s) ==
    IF i > Len(psd) THEN s
    ELSE With(SubEscapeRuns(psd[i].v), LAMBDA inner :
           LET k == psd[i].k
               v == psd[i].v
               \* re.match("b'\\s+'", readable_v)
               blank == inner # <<>> /\ \A j \in 1..Len(inner) : inner[j] = " "
               shown == IF blank
                        THEN (IF Len(v) < 5 THEN StrInt(FromBytes(v, "big"))
                              ELSE ReprBytes(v))
                        ELSE <<"b'">> \o inner \o <<"'">>
           IN PsdLines(psd, i + 1,
                       s \o PSD_RESOURCE_IDS(k) \o <<": ">> \o shown \o <<NL>>))

\* info_psd: the "photoshop" dict of resource id -> bytes.
info_psd(im) ==
    IF ~Has(im.info, "photoshop") THEN Ret(<<>>)
    ELSE Ret(Strip(PsdLines(Get(im.info, "photoshop").val, 1, <<"Photoshop:", NL>>)))

\* info_xmp: im.getxmp() gives a dict (empty: nothing to report), raises
\* ValueError, which is reported inline, or another error of the XML parser
\* (ParseError is a SyntaxError), which is not caught.
info_xmp(im) ==
    CASE ~im.has_getxmp -> Ret(<<>>)
      [] im.xmp = "empty" -> Ret(<<>>)
      [] im.xmp = "ValueError" -> Ret(<<"XMP: ", "bad xmp">>)
      [] im.xmp = "ParseError" -> Raise("ParseError")
      [] OTHER -> Ret(Strip(<<"XMP:", NL, "xmpmeta: {}", NL>>))

RemoveCR(s) == SelectSeq(s, LAMBDA t : t # "\r")

\* bytes.decode("ansi", errors="replace"): nothing is rejected, but the codec
\* must exist.
DecodeAnsiReplace(b, windows) ==
    IF b = <<>> THEN Ret(<<>>)
    ELSE IF ~CodecKnown("ansi", windows) THEN Raise("LookupError")
    ELSE Ret(ChrAll(DecodeCp1252(b).s))

\* info_exiftool: tool: whether exiftool is on PATH (else subprocess.run raises
\* FileNotFoundError, which is caught); stdout, stderr: what it printed.
info_exiftool(path, host) ==
    IF ~host.tool THEN Ret(<<>>)
    ELSE With(DecodeAnsiReplace(host.stdout, host.windows), LAMBDA out :
         With(DecodeAnsiReplace(host.stderr, host.windows), LAMBDA err :
           IF Raised(out) THEN out
           ELSE IF Raised(err) THEN err
           ELSE Ret(Strip(RemoveCR(out.value) \o RemoveCR(err.value)))))

\* ------------------------------------------------------------ info_get

\* The keys of info the header skips.
SkippedKeys ==
    {"dpi", "exif", "icc_profile", "jfif", "Names", "photoshop", "transparency",
     "XML:com.adobe.xmp"}

\* The value of one header item after its humanization: Ret(text) or the
\* exception of the branch.
HeaderValue(k, v) ==
    CASE k = "adobe" -> Ret(<<"DCT v">> \o PyFormat(v))
      [] k = "adobe_transform" ->
            Ret(PyFormat(DictGet(<<[k |-> 1, v |-> "YCbCr"]>>, v)))
      [] k = "comment" ->
            With(DecodeCall(v.val, "utf8", TRUE), LAMBDA a :
              IF Raised(a) /\ a.exc = "UnicodeDecodeError"
              THEN DecodeCall(v.val, "utf_16_be", TRUE)
              ELSE a)
      [] k = "jfif_unit" ->
            Ret(PyFormat(DictGet(<<[k |-> 0, v |-> "none"], [k |-> 1, v |-> "inch"],
                                   [k |-> 2, v |-> "cm"]>>, v)))
      [] k = "loop" -> Ret(PyFormat(DictGet(<<[k |-> 0, v |-> "infinite"]>>, v)))
      [] OTHER -> Ret(PyFormat(v))

RECURSIVE HeaderLines(_, _, _)
\* The loop of info_get over info.items().
HeaderLines(info, i, msg) ==
    IF i > Len(info) THEN Ret(msg)
    ELSE IF info[i].k \in SkippedKeys THEN HeaderLines(info, i + 1, msg)
    ELSE With(HeaderValue(info[i].k, info[i].v), LAMBDA r :
           IF Raised(r) THEN r
           ELSE HeaderLines(info, i + 1, msg \o <<NL, info[i].k, ": ">> \o r.value))

RECURSIVE Pad3(_)
Pad3(ds) == IF Len(ds) < 3 THEN Pad3(<<"0">> \o ds) ELSE ds

RECURSIVE Commas(_)
\* f"{n:,}"
Commas(n) ==
    IF n < 1000 THEN StrNat(n)
    ELSE Commas(n \div 1000) \o <<",">> \o Pad3(StrNat(n % 1000))

\* msg.replace("\0", "\\0")
EscapeNul(msg) ==
    Concat([i \in 1..Len(msg) |-> IF msg[i] = NUL THEN <<"\\", "0">> ELSE <<msg[i]>>])

\* Format, MIME type, bit depth, colour type, colours and pixels.
BasicStats(im) ==
    <<NL, "Format: ", im.format>>
    \o (IF im.has_mimetype THEN <<NL, "MIME type: ", "image/" \o im.format>> ELSE <<>>)
    \o (IF im.has_bits THEN <<NL, "Bit Depth: ", "8">> ELSE <<>>)
    \o <<NL, "Color Type: ", im.mode, NL, "Colors: ">> \o Commas(im.colors)
    \o <<NL, "Pixels: ">> \o Commas(im.width * im.height)

\* The extractors with the first two exchanged.
ExtractorsIccFirst ==
    <<"info_icc", "info_exif", "info_iptc", "info_xmp", "info_psd", "info_exiftool">>

\* for fun in (info_exif, info_icc, info_iptc, info_xmp, info_psd, info_exiftool)
Extractors ==
    <<"info_exif", "info_icc", "info_iptc", "info_xmp", "info_psd", "info_exiftool">>

Extract(fun, im, path, host) ==
    CASE fun = "info_exif" -> info_exif(im, host.windows)
      [] fun = "info_icc" -> info_icc(im)
      [] fun = "info_iptc" -> info_iptc(im)
      [] fun = "info_xmp" -> info_xmp(im)
      [] fun = "info_psd" -> info_psd(im)
      [] OTHER -> info_exiftool(path, host)

\* if s: msg += "\n\n" + s
AppendSection(msg, s) == IF s # <<>> THEN msg \o <<NL, NL>> \o s ELSE msg

RECURSIVE RunExtractors(_, _, _, _, _, _)
\* The loop of info_get over the extractors, from the i-th on.  st.msg is the
\* text so far, st.calls the extractors called so far and st.sections what
\* each returned.
RunExtractors(funs, i, st, im, path, host) ==
    IF i > Len(funs) THEN st
    ELSE With(Extract(funs[i], im, path, host), LAMBDA r :
           LET called == Append(st.calls, funs[i])
           IN IF Raised(r) THEN [st EXCEPT !.calls = called, !.exc = r.exc]
              ELSE RunExtractors(funs, i + 1,
                                 [st EXCEPT !.calls = called,
                                            !.sections = Append(st.sections, r.value),
                                            !.msg = AppendSection(st.msg, r.value)],
                                 im, path, host))

\* msg returned as it is.
ReportRaw(msg) == msg

\* The text info_get returns on each of its two return paths.
ReportNoImage(msg) == EscapeNul(msg)
ReportImage(msg) == EscapeNul(msg)

\* info_get(im, info, path): Ret(text) or the exception that left it.  The
\* record also keeps the local msg before the final replace (base: before the
\* extractors ran), the extractors called and what each returned.
info_get(im, info, path, host) ==
    With(HeaderLines(info, 1, <<>>), LAMBDA h :
      LET none == [calls |-> <<>>, sections |-> <<>>, base |-> <<>>, msg |-> <<>>]
      IN IF Raised(h) THEN h @@ none
         ELSE IF im.isNone
              THEN Ret(ReportNoImage(h.value))
                   @@ [none EXCEPT !.base = h.value, !.msg = h.value]
         ELSE With(h.value \o BasicStats(im), LAMBDA base :
              With(RunExtractors(Extractors, 1,
                                 [calls |-> <<>>, sections |-> <<>>, msg |-> base,
                                  exc |-> ""],
                                 im, path, host),
                   LAMBDA st :
                LET hist == [calls |-> st.calls, sections |-> st.sections,
                             base |-> base, msg |-> st.msg]
                IN IF st.exc # "" THEN Raise(st.exc) @@ hist
                   ELSE Ret(ReportImage(st.msg)) @@ hist)))

\* ------------------------------------------- the calls of info_decode

\* The bytes the payloads are drawn from: NUL, "A", a UTF-8 continuation
\* byte, two surrogate lead bytes and a byte no encoding but latin1 takes.
ByteAlphabet == {0, 65, 128, 216, 220, 255}

Payloads == SeqsUpTo(ByteAlphabet, MaxBytes)

Markers == {<<>>, ASCII_MARK, UNICODE_MARK}

\* The encoding names a caller passes: those of info_exif, others Python
\* knows, and one it does not.
EncodingNames == {"utf_16_be", "utf_16_le", "utf8", "ascii", "latin1", "klingon"}

DecodeValues ==
    {PyBytes(m \o p) : m \in Markers, p \in Payloads} \cup {PyInt(n) : n \in {0, 12}}

DecodeArgs ==
    [b : DecodeValues, encoding : EncodingNames, windows : BOOLEAN]

InitDecode ==
    /\ arg \in DecodeArgs
    /\ ret = NoRet
    /\ NotRunning

InfoDecodeCall ==
    /\ ret = NoRet
    /\ ret' = info_decode(arg.b, arg.encoding, arg.windows)
    /\ UNCHANGED arg
    /\ UNCHANGED appvars

NextDecode == InfoDecodeCall

SpecDecode == InitDecode /\ [][NextDecode]_vars

\* ------------------------------------------- the calls of info_exif

\* The blob under im.info["exif"]: TIFF headers of either byte order, the same
\* behind the JPEG prefix Exif\0\0, and little-endian headers with the bytes
\* MM further on, inside and outside the first eight bytes.
ExifBlobs ==
    { <<77, 77, 0, 42, 0, 0, 0, 8>>,
      <<73, 73, 42, 0, 8, 0, 0, 0>>,
      <<69, 120, 105, 102, 0, 0, 77, 77, 0, 42>>,
      <<69, 120, 105, 102, 0, 0, 73, 73, 42, 0>>,
      <<73, 73, 42, 0, 77, 77, 0, 0>>,
      <<73, 73, 42, 0, 8, 0, 0, 0, 77, 77>> }

\* The items _getexif() can hold: tag and value.
ExifItems ==
    [k : {274}, v : {PyInt(n) : n \in 0..9}]
    \cup [k : {771}, v : {PyBytes(b) : b \in {<<0>>, <<3>>, <<4>>, <<0, 1>>}}]
    \cup [k : {40961}, v : {PyInt(1), PyInt(2)}]
    \cup [k : {37121}, v : {PyBytes(<<1, 2, 3, 0>>), PyBytes(<<9>>)}]
    \cup [k : {37510}, v : {PyBytes(ASCII_MARK \o <<65>>), PyBytes(ASCII_MARK \o <<255>>),
                            PyBytes(UNICODE_MARK \o <<0, 65>>),
                            PyBytes(<<65, 0, 66, 255, 65>>)}]
    \cup [k : {271}, v : {PyText(<<"A", " ">>), PyText(<<"A", NUL>>), PyBytes(<<0, 7>>)}]
    \cup [k : {296}, v : {PyInt(2)}]
    \cup [k : {41990}, v : {PyInt(3)}]
    \cup [k : {531}, v : {PyInt(1)}]
    \cup [k : {59932}, v : {PyBytes(<<0>>)}]

\* Dictionaries: sequences of items with distinct keys.
DistinctKeys(d) == \A i, j \in 1..Len(d) : d[i].k = d[j].k => i = j
ExifDicts == {d \in SeqsUpTo(ExifItems, MaxTags) : DistinctKeys(d)}

\* Images as info_exif sees them.  An image without _getexif has nothing to
\* return from it; one with it may hold the EXIF data under another key than
\* "exif" (PNG: "Raw profile type exif"), so exif items come with or without
\* the blob.
ExifImages ==
    [has_getexif : {FALSE}, exif : {<<>>},
     info : {<<>>} \cup {<<[k |-> "exif", v |-> PyBytes(b)]>> : b \in ExifBlobs}]
    \cup [has_getexif : {TRUE}, exif : ExifDicts,
          info : {<<>>} \cup {<<[k |-> "exif", v |-> PyBytes(b)]>> : b \in ExifBlobs}]

InitExif ==
    /\ arg \in [im : ExifImages, windows : BOOLEAN]
    /\ ret = NoRet
    /\ NotRunning

InfoExifCall ==
    /\ ret = NoRet
    /\ ret' = info_exif(arg.im, arg.windows)
    /\ UNCHANGED arg
    /\ UNCHANGED appvars

NextExif == InfoExifCall

SpecExif == InitExif /\ [][NextExif]_vars

\* -------------------------------------------- the calls of info_get

\* What each extractor can meet in an image.
ExifCases ==
    { [exif |-> <<>>, blob |-> <<>>],
      [exif |-> <<[k |-> 274, v |-> PyInt(1)]>>, blob |-> <<77, 77, 0, 42>>],
      [exif |-> <<[k |-> 271, v |-> PyText(<<"A", NUL>>)]>>, blob |-> <<73, 73, 42, 0>>],
      [exif |-> <<[k |-> 274, v |-> PyInt(9)]>>, blob |-> <<73, 73, 42, 0>>],
      [exif |-> <<[k |-> 771, v |-> PyBytes(<<4>>)]>>, blob |-> <<77, 77, 0, 42>>] }

IccProfile(valid, intent) ==
    [empty |-> FALSE, valid |-> valid, intent |-> intent, copyright |-> <<"C">>,
     description |-> <<"D", " ">>, man |-> <<>>, model |-> <<"M">>]

IccCases ==
    { <<>>,
      <<[k |-> "icc_profile", v |-> PyIcc([IccProfile(TRUE, 0) EXCEPT !.empty = TRUE])]>>,
      <<[k |-> "icc_profile", v |-> PyIcc(IccProfile(TRUE, 1))]>>,
      <<[k |-> "icc_profile", v |-> PyIcc(IccProfile(FALSE, 0))]>>,
      <<[k |-> "icc_profile", v |-> PyIcc(IccProfile(TRUE, 4))]>> }

IptcCases ==
    { <<>>,
      <<[k |-> "(2, 0)", v |-> PyBytes(<<4, 0>>)], [k |-> "(2, 5)", v |-> PyBytes(<<65, 0>>)]>> }

XmpCases == {"absent", "empty", "ok", "ValueError", "ParseError"}

PsdCases ==
    { <<>>,
      <<[k |-> "photoshop", v |-> PyDict(<<>>)]>>,
      <<[k |-> "photoshop",
         v |-> PyDict(<<[k |-> 1036, v |-> <<0, 1>>], [k |-> 1061, v |-> <<65, 0>>]>>)]>> }

\* The host: whether exiftool is on PATH, what it prints and whether the
\* platform is Windows.
Hosts ==
    [tool : {FALSE}, stdout : {<<>>}, stderr : {<<>>}, windows : BOOLEAN]
    \cup [tool : {TRUE}, stdout : {<<>>, <<65, 0, 13, 10>>}, stderr : {<<>>, <<66>>},
          windows : BOOLEAN]

\* APP.info as im_show passes it: statistics, container names and the
\* image's own info.
InfoDicts ==
    { <<>>,
      <<[k |-> "Size", v |-> PyText(<<"A">>)], [k |-> "Names", v |-> PyText(<<"B">>)]>>,
      <<[k |-> "comment", v |-> PyBytes(<<65, 0>>)], [k |-> "loop", v |-> PyInt(0)]>>,
      <<[k |-> "comment", v |-> PyBytes(<<255>>)]>>,
      <<[k |-> "jfif_unit", v |-> PyInt(1)], [k |-> "adobe", v |-> PyInt(100)],
        [k |-> "adobe_transform", v |-> PyInt(1)]>> }

NoImage == [isNone |-> TRUE]

Img(e, icc, iptc, xmp, psd) ==
    [isNone |-> FALSE,
     has_getexif |-> TRUE,
     exif |-> e.exif,
     info |-> (IF e.blob # <<>> THEN <<[k |-> "exif", v |-> PyBytes(e.blob)]>> ELSE <<>>) \o icc \o psd,
     iptc |-> iptc,
     has_getxmp |-> xmp # "absent",
     xmp |-> xmp,
     format |-> "PNG", has_mimetype |-> TRUE, has_bits |-> FALSE,
     mode |-> "RGB", colors |-> 1234, width |-> 40, height |-> 30]

Images ==
    {NoImage}
    \cup { Img(e, icc, iptc, xmp, psd) :
             e \in ExifCases, icc \in IccCases, iptc \in IptcCases, xmp \in XmpCases,
             psd \in PsdCases }

InitInfo ==
    /\ arg \in [im : Images, info : InfoDicts, path : {<<"A">>}, host : Hosts]
    /\ ret = NoRet
    /\ NotRunning

InfoGetCall ==
    /\ ret = NoRet
    /\ ret' = info_get(arg.im, arg.info, arg.path, arg.host)
    /\ UNCHANGED arg
    /\ UNCHANGED appvars

NextInfo == InfoGetCall

SpecInfo == InitInfo /\ [][NextInfo]_vars

\* ------------------------------------------------- names and sorting

\* Names are sequences of characters.
Digits == <<"0", "1", "2", "3", "4", "5", "6", "7", "8", "9">>
Lowers ==
    <<"a", "b", "c", "d", "e", "f", "g", "h", "i", "j", "k", "l", "m",
      "n", "o", "p", "q", "r", "s", "t", "u", "v", "w", "x", "y", "z">>
Uppers ==
    <<"A", "B", "C", "D", "E", "F", "G", "H", "I", "J", "K", "L", "M",
      "N", "O", "P", "Q", "R", "S", "T", "U", "V", "W", "X", "Y", "Z">>

IndexOf(seq, c) == CHOOSE i \in 1..Len(seq) : seq[i] = c
InSeq(seq, c) == \E i \in 1..Len(seq) : seq[i] = c

\* ord(c) for the characters of the names drawn here.
Ord(c) ==
    CASE InSeq(Digits, c) -> 47 + IndexOf(Digits, c)
      [] InSeq(Uppers, c) -> 64 + IndexOf(Uppers, c)
      [] InSeq(Lowers, c) -> 96 + IndexOf(Lowers, c)
      [] c = " " -> 32
      [] c = "." -> 46
      [] c = "-" -> 45
      [] c = "/" -> 47
      [] c = ":" -> 58
      [] c = "_" -> 95
      [] OTHER -> 178

\* str.lower() and str.upper(), by character.
LowerChar(c) == IF InSeq(Uppers, c) THEN Lowers[IndexOf(Uppers, c)] ELSE c
UpperChar(c) == IF InSeq(Lowers, c) THEN Uppers[IndexOf(Lowers, c)] ELSE c
Lower(s) == [i \in 1..Len(s) |-> LowerChar(s[i])]
Upper(s) == [i \in 1..Len(s) |-> UpperChar(s[i])]

\* \d of the pattern; str.isdigit() also accepts the superscript two.
IsReDigit(c) == InSeq(Digits, c)
IsDigitChar(c) == IsReDigit(c) \/ c = "^2"

RECURSIVE ParseInt(_, _)
\* int(t) of a run of ASCII digits.
ParseInt(t, acc) ==
    IF t = <<>> THEN acc ELSE ParseInt(Tail(t), 10 * acc + (IndexOf(Digits, Head(t)) - 1))

RECURSIVE ReSplit(_, _)
\* re.split(r"(\d+|[.])", s): the text between separators and the separators
\* (a run of digits or one dot), alternating; cur is the text gathered so far.
ReSplit(s, cur) ==
    IF s = <<>> THEN <<cur>>
    ELSE IF Head(s) = "." THEN <<cur, <<".">>>> \o ReSplit(Tail(s), <<>>)
    ELSE IF IsReDigit(Head(s))
         THEN LET n == CHOOSE m \in 1..Len(s) :
                          /\ \A j \in 1..m : IsReDigit(s[j])
                          /\ (m = Len(s) \/ ~IsReDigit(s[m + 1]))
              IN <<cur, SubSeq(s, 1, n)>> \o ReSplit(Drop(s, n), <<>>)
    ELSE ReSplit(Tail(s), Append(cur, Head(s)))

\* One element of the key: -1 for a dot, the number for digits, else the
\* lower-cased text.  int() of digits that are not ASCII raises ValueError.
KeyPart(t) ==
    IF t = <<".">> THEN Ret(PyInt(-1))
    ELSE IF t # <<>> /\ \A i \in 1..Len(t) : IsDigitChar(t[i])
         THEN (IF \A i \in 1..Len(t) : IsReDigit(t[i]) THEN Ret(PyInt(ParseInt(t, 0)))
               ELSE Raise("ValueError"))
    ELSE Ret(PyText(Lower(t)))

\* natural_sort(s): Ret(key) or the exception.
natural_sort(s) ==
    With(ReSplit(s, <<>>), LAMBDA parts :
    With([i \in 1..Len(parts) |-> KeyPart(parts[i])], LAMBDA keys :
      IF \E i \in 1..Len(keys) : Raised(keys[i]) THEN Raise("ValueError")
      ELSE Ret([i \in 1..Len(keys) |-> keys[i].value])))

RECURSIVE TextLess(_, _)
\* a < b of two strings.
TextLess(a, b) ==
    IF b = <<>> THEN FALSE
    ELSE IF a = <<>> THEN TRUE
    ELSE IF Head(a) # Head(b) THEN Ord(Head(a)) < Ord(Head(b))
    ELSE TextLess(Tail(a), Tail(b))

RECURSIVE KeyLess(_, _)
\* a < b of two keys (lists): the first differing element decides, a proper
\* prefix is smaller.  Elements at the same position are of the same type.
KeyLess(a, b) ==
    IF b = <<>> THEN FALSE
    ELSE IF a = <<>> THEN TRUE
    ELSE IF Head(a) # Head(b)
         THEN (IF Head(a).kind = "int" THEN Head(a).val < Head(b).val
               ELSE TextLess(Head(a).val, Head(b).val))
    ELSE KeyLess(Tail(a), Tail(b))

\* Whether x goes before y in list.sort(key=natural_sort, reverse=reverse).
Before(x, y, reverse) ==
    With([s \in {x, y} |-> natural_sort(s).value], LAMBDA key :
      IF reverse THEN KeyLess(key[y], key[x]) ELSE KeyLess(key[x], key[y]))

RECURSIVE Insert(_, _, _)
\* x put into the sorted list after every element it does not go before.
Insert(sorted, x, reverse) ==
    IF sorted = <<>> THEN <<x>>
    ELSE IF Before(x, Head(sorted), reverse) THEN <<x>> \o sorted
    ELSE <<Head(sorted)>> \o Insert(Tail(sorted), x, reverse)

RECURSIVE SortNatural(_, _)
\* names.sort(key=natural_sort, reverse=reverse): stable.
SortNatural(names, reverse) ==
    IF names = <<>> THEN <<>>
    ELSE Insert(SortNatural(SubSeq(names, 1, Len(names) - 1), reverse),
                names[Len(names)], reverse)

\* pathlib's suffix of a name: from its last dot on, unless that dot leads or
\* ends the name.
Suffix(name) ==
    LET dots == {i \in 2..(Len(name) - 1) : name[i] = "."}
    IN IF dots = {} THEN <<>>
       ELSE SubSeq(name, CHOOSE i \in dots : \A j \in dots : j <= i, Len(name))

EndsWith(s, e) == Len(s) >= Len(e) /\ SubSeq(s, Len(s) - Len(e) + 1, Len(s)) = e

\* APP.SUPPORTED_EXTENSIONS, for the extensions drawn here.
SUPPORTED_EXTENSIONS ==
    { <<"G", "I", "F">>, <<"M", "H", "T">>, <<"P", "N", "G">>, <<"T", "A", "R">>,
      <<"Z", "I", "P">> }

\* has_supported_extension of a name inside an archive.
has_supported_extension(name) ==
    IF StartsWith(name, <<"_", "_", "M", "A", "C", "O", "S", "X">>) THEN FALSE
    ELSE \E ext \in SUPPORTED_EXTENSIONS : EndsWith(Upper(name), ext)

\* ------------------------------------------------------ the files

PNG == <<".", "p", "n", "g">>
GIF == <<".", "g", "i", "f">>
ZIP == <<".", "z", "i", "p">>
TAR == <<".", "t", "a", "r">>
MHT == <<".", "m", "h", "t">>
TXT == <<".", "t", "x", "t">>

\* What a file or an archive member decodes to.  status: "ok",
\* "unidentified" (Image.open raises UnidentifiedImageError) or "truncated"
\* (Image.open succeeds, loading the pixels raises OSError); n_frames: the
\* frames of the image; pil: the image's metadata.
Picture(status, n_frames, pil) == [status |-> status, n_frames |-> n_frames, pil |-> pil]

PlainImg ==
    Img([exif |-> <<>>, blob |-> <<>>], <<>>, <<>>, "absent", <<>>)
ExifImg ==
    Img([exif |-> <<[k |-> 274, v |-> PyInt(1)]>>, blob |-> <<77, 77, 0, 42>>],
        <<>>, <<>>, "absent", <<>>)
BadExifImg ==
    Img([exif |-> <<[k |-> 274, v |-> PyInt(9)]>>, blob |-> <<73, 73, 42, 0>>],
        <<>>, <<>>, "absent", <<>>)

Good == Picture("ok", 1, PlainImg)
GoodExif == Picture("ok", 1, ExifImg)
Animated == Picture("ok", 2, PlainImg)
BadMeta == Picture("ok", 1, BadExifImg)
Unidentified == Picture("unidentified", 0, PlainImg)
Truncated == Picture("truncated", 1, PlainImg)

Member(name, isfile, pic) == [name |-> name, isfile |-> isfile, pic |-> pic]

\* One part of an MHTML document: whether it has the blank line between its
\* headers and its data, whether its transfer encoding is base64, its content
\* type ("image", "text" or "" for none), the name taken from its headers and
\* what its data decodes to.
Part(wellformed, base64, ctype, name, pic) ==
    [wellformed |-> wellformed, base64 |-> base64, ctype |-> ctype, name |-> name,
     pic |-> pic]

File(kind, valid, pic, members, parts) ==
    [kind |-> kind, valid |-> valid, pic |-> pic, members |-> members, parts |-> parts]

Plain(pic) == File("file", TRUE, pic, <<>>, <<>>)
Archive(kind, valid, members) == File(kind, valid, Unidentified, members, <<>>)
Mhtml(boundary, parts) == File("mhtml", boundary, Unidentified, <<>>, parts)

ReadmeTxt == Member(<<"r">> \o TXT, TRUE, Unidentified)

\* The folder the viewer was started in, by name.
Folder ==
    << [name |-> <<"a">> \o PNG, file |-> Plain(GoodExif)],
       [name |-> <<"b">> \o GIF, file |-> Plain(Animated)],
       [name |-> <<"d">>, file |-> File("dir", TRUE, Unidentified, <<>>, <<>>)],
       [name |-> <<"e">> \o ZIP,
        file |-> Archive("zip", TRUE,
                         << Member(<<"1", "0">> \o PNG, TRUE, Good),
                            Member(<<"2">> \o GIF, TRUE, Animated),
                            Member(<<"3">> \o PNG, TRUE, Unidentified),
                            ReadmeTxt >>)],
       [name |-> <<"f">> \o ZIP, file |-> Archive("zip", TRUE, <<ReadmeTxt>>)],
       [name |-> <<"g">> \o ZIP, file |-> Archive("zip", FALSE, <<>>)],
       [name |-> <<"h">> \o TAR,
        file |-> Archive("tar", TRUE,
                         << Member(<<"1">> \o PNG, TRUE, Unidentified),
                            Member(<<"2">> \o PNG, TRUE, Good),
                            Member(<<"s">>, FALSE, Unidentified) >>)],
       [name |-> <<"i">> \o TAR, file |-> Archive("tar", TRUE, <<ReadmeTxt>>)],
       [name |-> <<"j">> \o MHT,
        file |-> Mhtml(TRUE,
                       << Part(TRUE, FALSE, "text", <<"p">>, Unidentified),
                          Part(TRUE, TRUE, "image", <<"1">> \o PNG, Good),
                          Part(TRUE, TRUE, "text", <<"q">>, Unidentified),
                          Part(TRUE, TRUE, "", <<"2">> \o PNG, Unidentified) >>)],
       [name |-> <<"k">> \o MHT,
        file |-> Mhtml(TRUE,
                       << Part(TRUE, FALSE, "image", <<"p">> \o PNG, Good),
                          Part(TRUE, TRUE, "text", <<"q">>, Unidentified) >>)],
       [name |-> <<"l">> \o MHT, file |-> Mhtml(FALSE, <<>>)],
       [name |-> <<"n">> \o PNG, file |-> File("missing", TRUE, Unidentified, <<>>, <<>>)],
       [name |-> <<"t">> \o PNG, file |-> Plain(Truncated)],
       [name |-> <<"u">> \o PNG, file |-> Plain(BadMeta)] >>

FileNames == With(Folder, LAMBDA fo : {fo[i].name : i \in 1..Len(fo)})

\* The file a path names in the folder w.fs.
FS(w, path) == w.fs[CHOOSE i \in 1..Len(w.fs) : w.fs[i].name = path].file

\* ------------------------------------------------------ the loaders

\* The state the handlers work on: w.APP, the attributes of APP; w.title and
\* w.ERROR_OVERLAY and w.CANVAS, the widgets; w.open, the archive files the
\* process holds open; w.timers, the callbacks scheduled; w.fs, the folder on
\* disk.  A call gives [w |-> the state after it, exc |-> what it raised].
Exc(type, text, has_path) == [type |-> type, text |-> text, has_path |-> has_path]
NoExc == Exc("", "", FALSE)
Done(w) == [w |-> w, exc |-> NoExc]
Fail(w, e) == [w |-> w, exc |-> e]

\* seq[i] of Python: a negative i counts from the end.
ValidIndex(seq, i) == i >= -Len(seq) /\ i < Len(seq)
\* An indexing that gives the first element whatever the index.
AtFirst(seq, i) == seq[1]

At(seq, i) == seq[(IF i < 0 THEN Len(seq) + i ELSE i) + 1]

\* APP.im: None or an image.  n_frames is 0 for an image without the
\* attribute; fp tells whether the image holds the stream of an archive
\* member, which keeps the archive file open.
NoneIm ==
    [isNone |-> TRUE, name |-> <<>>, n_frames |-> 0, fp |-> FALSE, status |-> "ok",
     pil |-> PlainImg]
Opened(name, pic, fp) ==
    [isNone |-> FALSE, name |-> name, n_frames |-> pic.n_frames, fp |-> fp,
     status |-> pic.status, pil |-> pic.pil]

\* im.copy(): an Image.Image with the pixels and the info, without the
\* attributes of the format's class (n_frames, _getexif, getxmp,
\* get_format_mimetype) and without the stream.
Copy(im) ==
    [im EXCEPT !.n_frames = 0, !.fp = FALSE,
               !.pil = [im.pil EXCEPT !.has_getexif = FALSE, !.has_getxmp = FALSE,
                                      !.has_mimetype = FALSE]]

\* APP.im = im: the image held before is dropped, and with it its stream.
SetIm(w, im) ==
    [w EXCEPT !.APP.im = im, !.open = IF w.APP.im.fp THEN @ - 1 ELSE @]

\* APP.info: stats is the file set_stats read (<<>>: none), Names the entry
\* list of a container, meta the image's own info and Frames its frame count.
EmptyInfo ==
    [stats |-> <<>>, hasNames |-> FALSE, Names |-> <<>>, meta |-> <<>>, Frames |-> 0]

\* set_stats: os.stat of a missing file raises FileNotFoundError, whose text
\* quotes the path.
set_stats(w, path) ==
    IF FS(w, path).kind = "missing"
    THEN Fail(w, Exc("FileNotFoundError", "No such file or directory", TRUE))
    ELSE Done([w EXCEPT !.APP.info = [EmptyInfo EXCEPT !.stats = path]])

MemberNamed(f, name) == f.members[CHOOSE i \in 1..Len(f.members) : f.members[i].name = name]

\* The names of an archive after the filter and the sort.
EntryNames(w, f) ==
    With([i \in 1..Len(f.members) |-> f.members[i].name], LAMBDA all :
    With(IF w.APP.filter_names THEN SelectSeq(all, has_supported_extension) ELSE all,
         LAMBDA kept :
      IF w.APP.sort = "natural" THEN SortNatural(kept, w.APP.reverse) ELSE kept))

\* The check of load_zip for an empty list.
ZipListEmpty(names) == Len(names) = 0

\* load_zip.  held: the archive file is still open when the call ends, kept
\* by the member's stream, which the lazily opened image (or the traceback of
\* the failed Image.open) holds.
load_zip(w, path) ==
    With(FS(w, path), LAMBDA f :
    With(EntryNames(w, f), LAMBDA names :
      IF ~f.valid
      THEN Fail(w, Exc("BadZipFile", "File is not a zip file", FALSE)) @@ [held |-> FALSE]
      ELSE IF ZipListEmpty(names) THEN Done(SetIm(w, NoneIm)) @@ [held |-> FALSE]
      ELSE With([w EXCEPT !.APP.info.hasNames = TRUE, !.APP.info.Names = names,
                          !.APP.i_zip = IF ValidIndex(names, @) THEN @ ELSE 0,
                          !.open = @ + 1],
                LAMBDA w3 :
           With(At(names, w3.APP.i_zip), LAMBDA name :
           With(MemberNamed(f, name).pic, LAMBDA pic :
             IF pic.status = "unidentified"
             THEN Fail(w3, Exc("UnidentifiedImageError", "cannot identify image file",
                               FALSE)) @@ [held |-> TRUE]
             ELSE Done(SetIm(w3, Opened(name, pic, TRUE))) @@ [held |-> TRUE])))))

\* The check of load_tar for an empty list.
TarListEmpty(names) == Len(names) = 0

\* load_tar: the with block closes the archive however the call ends.
load_tar(w, path) ==
    With(FS(w, path), LAMBDA f :
    With(EntryNames(w, f), LAMBDA names :
      IF ~f.valid THEN Fail(w, Exc("ReadError", "file could not be opened", FALSE))
      ELSE IF TarListEmpty(names) THEN Fail(w, Exc("ValueError", "No image found", FALSE))
      ELSE With([w EXCEPT !.APP.info.hasNames = TRUE, !.APP.info.Names = names,
                          !.APP.i_zip = IF ValidIndex(names, @) THEN @ ELSE 0],
                LAMBDA w2 :
           With(At(names, w2.APP.i_zip), LAMBDA name :
           With(MemberNamed(f, name), LAMBDA m :
             IF ~m.isfile THEN Fail(w2, Exc("TypeError", "Not an image", FALSE))
             ELSE IF m.pic.status = "unidentified"
                  THEN Fail(w2, Exc("UnidentifiedImageError",
                                    "cannot identify image file", FALSE))
             ELSE IF m.pic.status = "truncated"
                  THEN Fail(SetIm(w2, Opened(name, m.pic, FALSE)),
                            Exc("OSError", "image file is truncated", FALSE))
             ELSE Done(SetIm(w2, Copy(Opened(name, m.pic, FALSE)))))))))

\* Whether load_mhtml keeps a part.
Qualifies(part) == part.base64 /\ part.ctype \in {"", "image"}

\* A load_mhtml that goes on to the parts without the check for none kept.
NeverNoParts(new_parts) == FALSE

\* The check of load_mhtml for no part kept.
NoParts(new_parts) == new_parts = <<>>

\* load_mhtml
load_mhtml(w, path) ==
    With(FS(w, path), LAMBDA f :
    With(SelectSeq(f.parts, Qualifies), LAMBDA new_parts :
    With([i \in 1..Len(new_parts) |-> new_parts[i].name], LAMBDA names :
      IF ~f.valid
      THEN Fail(w, Exc("AttributeError", "'NoneType' object has no attribute 'group'",
                       FALSE))
      ELSE IF \E i \in 1..Len(f.parts) : ~f.parts[i].wellformed
           THEN Fail(w, Exc("ValueError", "not enough values to unpack", FALSE))
      ELSE IF NoParts(new_parts) THEN Fail(w, Exc("ValueError", "No image found", TRUE))
      ELSE With([w EXCEPT !.APP.info.hasNames = TRUE, !.APP.info.Names = names],
                LAMBDA w1 :
             IF ~ValidIndex(names, w1.APP.i_zip)
             THEN Fail(w1, Exc("IndexError", "list index out of range", FALSE))
             ELSE With(At(new_parts, w1.APP.i_zip), LAMBDA part :
                    IF part.pic.status = "unidentified"
                    THEN Fail(w1, Exc("UnidentifiedImageError", "Failed to load image",
                                      FALSE))
                    ELSE Done(SetIm(w1, Opened(part.name, part.pic, FALSE))))))))

\* Image.open(path) and APP.im.load() of im_load's last branch.
load_direct(w, path) ==
    With(FS(w, path), LAMBDA f :
      IF f.kind = "dir" THEN Fail(w, Exc("IsADirectoryError", "Is a directory", TRUE))
      ELSE IF f.pic.status = "unidentified"
           THEN Fail(w, Exc("UnidentifiedImageError", "cannot identify image file", TRUE))
      ELSE IF f.pic.status = "truncated"
           THEN Fail(SetIm(w, Opened(path, f.pic, FALSE)),
                     Exc("OSError", "image file is truncated", FALSE))
      ELSE Done(SetIm(w, Opened(path, f.pic, FALSE))))

\* ------------------------------------------------- showing and loading

DEBUG == 10
CRITICAL == 50

\* The machine the viewer runs on: no exiftool on PATH.
Host == [tool |-> FALSE, stdout |-> <<>>, stderr |-> <<>>, windows |-> FALSE]

\* path_get(): the shown path.
path_get(w) == w.APP.paths[(IF w.APP.i_path > 0 THEN w.APP.i_path ELSE 0) + 1]

\* APP.info as the dictionary info_get reads.
InfoItems(info) ==
    (IF info.stats # <<>>
     THEN <<[k |-> "Size", v |-> PyText(<<"1", " B">>)],
            [k |-> "Created", v |-> PyText(<<"1">>)],
            [k |-> "Modified", v |-> PyText(<<"2">>)],
            [k |-> "Accessed", v |-> PyText(<<"3">>)]>>
     ELSE <<>>)
    \o (IF info.hasNames THEN <<[k |-> "Names", v |-> PyText(<<>>)]>> ELSE <<>>)
    \o info.meta
    \o (IF info.Frames > 0
        THEN <<[k |-> "Frames", v |-> PyInt(info.Frames)],
               [k |-> "duration", v |-> PyText(<<"200 ms">>)]>>
        ELSE <<>>)

\* What the title bar and the error overlay show.  kind: "" (nothing yet),
\* "image" or "error"; pos/n: the position among the paths; zip_pos/entry:
\* the position and name of the container entry (0, <<>>: none); path: the
\* path in the text (<<>>: none); err: the exception an error text names.
Title(kind, pos, n, zip_pos, entry, path, err) ==
    [kind |-> kind, pos |-> pos, n |-> n, zip_pos |-> zip_pos, entry |-> entry,
     path |-> path, err |-> err]

\* The empty text.
NoTitle == Title("", 0, 0, 0, <<>>, <<>>, NoExc)

\* im_show: zip_info, the title and, while the info overlay shows and the
\* position differs from the one of the last report, the report: info_set
\* gives CANVAS.text the title and what info_get returned, of which the
\* title tells the file and the entry reported on.
im_show(w) ==
    With(w.APP.info.Names, LAMBDA names :
    With(w.APP.info.hasNames /\ Len(names) > 0, LAMBDA listed :
    With([w EXCEPT !.ERROR_OVERLAY.lifted = FALSE,
                   !.APP.i_zip = IF listed /\ @ > Len(names) THEN 0 ELSE @],
         LAMBDA w2 :
      IF listed /\ ~ValidIndex(names, w2.APP.i_zip)
      THEN Fail(w2, Exc("IndexError", "list index out of range", FALSE))
      ELSE With([w2 EXCEPT !.title =
                    Title("image", w2.APP.i_path + 1, Len(w2.APP.paths),
                          IF listed THEN w2.APP.i_zip + 1 ELSE 0,
                          IF listed THEN At(names, w2.APP.i_zip) ELSE <<>>,
                          path_get(w2), NoExc)],
                LAMBDA w3 :
             LET i_zip == w3.APP.i_zip
                 i_path == w3.APP.i_path
                 old == w3.APP.old
             IN IF w3.APP.showing # "info" THEN Done(w3)
                ELSE IF old.has_path /\ i_path = old.i_path /\ ~old.has_zip
                     THEN Fail(w3, Exc("AttributeError", "no attribute 'i_zip_old'",
                                       FALSE))
                ELSE IF old.has_path /\ i_path = old.i_path /\ i_zip = old.i_zip
                     THEN Done(w3)
                ELSE With([w3 EXCEPT !.APP.old =
                              [has_path |-> TRUE, i_path |-> i_path,
                               has_zip |-> TRUE, i_zip |-> i_zip]],
                          LAMBDA w4 :
                     With(info_get(IF w4.APP.im.isNone THEN NoImage ELSE w4.APP.im.pil,
                                   InfoItems(w4.APP.info), path_get(w4), Host),
                          LAMBDA r :
                       IF Raised(r) THEN Fail(w4, Exc(r.exc, "", FALSE))
                       ELSE Done([w4 EXCEPT !.CANVAS.text = w4.title])))))))

\* error_show(msg): msg is the title the error gives; press_enter tells
\* whether the text holds "Press enter".
error_show(w, msg, press_enter) ==
    With(im_show(w), LAMBDA r :
      IF r.exc # NoExc THEN r
      ELSE With([r.w EXCEPT !.title = msg,
                            !.ERROR_OVERLAY.lifted = TRUE,
                            !.APP.old.has_path = TRUE,
                            !.APP.old.i_path = -1],
                LAMBDA w1 :
             IF ~press_enter /\ w1.APP.verbosity = DEBUG
             THEN Fail(w1, Exc("ValueError", "shown", msg.path # <<>>))
             ELSE Done(w1)))

\* The least id no pending callback of fn has.
FreeId(ts, fn) ==
    Least({k \in 1..(Cardinality(ts) + 1) : \A t \in ts : t.fn = fn => t.id # k})

\* APP.after(ms, fn): a callback of fn is pending.
After(ts, fn) == ts \cup {[fn |-> fn, id |-> FreeId(ts, fn)]}

\* The animation timer set without cancelling the one APP.animation names.
AnimationTimerKeepsOld(w) ==
    [w EXCEPT !.timers =
        @ \cup {[fn |-> "im_resize", id |-> FreeId(@, "im_resize"),
                 loop |-> w.APP.b_animate, animation |-> TRUE]}]

\* The animation timer of im_resize: APP.after_cancel(APP.animation) and
\* APP.animation = APP.after(duration, im_resize, APP.b_animate).  The
\* pending callback APP.animation names is the one marked animation;
\* cancelling one that has fired does nothing.
AnimationTimerSet(w) ==
    With({t \in w.timers : ~(t.fn = "im_resize" /\ t.animation)}, LAMBDA kept :
      [w EXCEPT !.timers =
          kept \cup {[fn |-> "im_resize", id |-> FreeId(kept, "im_resize"),
                      loop |-> w.APP.b_animate, animation |-> TRUE]}])

\* im_resize(loop)
im_resize(w, loop) ==
    IF w.APP.im.isNone THEN Done(w)
    ELSE With(IF loop /\ w.APP.info.Frames > 1
              THEN AnimationTimerSet(
                       [w EXCEPT !.APP.im_frame = (@ + 1) % w.APP.im.n_frames])
              ELSE w,
              LAMBDA w1 :
           IF w1.APP.im.status = "truncated"
           THEN Fail(w1, Exc("OSError", "image file is truncated", FALSE))
           ELSE \* APP.im.copy() loads the pixels; the loaded image of a single
                \* frame lets go of its stream.
                im_show(IF w1.APP.im.fp /\ w1.APP.im.n_frames <= 1
                        THEN [w1 EXCEPT !.APP.im.fp = FALSE, !.open = @ - 1]
                        ELSE w1))

ZipSuffixes == {ZIP}
SvgSuffixes == {<<".", "s", "v", "g">>, <<".", "s", "v", "g", "z">>}
MhtmlSuffixes == {<<".", "e", "m", "l">>, MHT, <<".", "m", "h", "t", "m", "l">>}
TarSuffixes ==
    {TAR, <<".", "t", "b", "z", "2">>, <<".", "t", "g", "z">>, <<".", "t", "x", "z">>}
TarDoubleSuffixes ==
    {TAR \o <<".", "b", "z", "2">>, TAR \o <<".", "g", "z">>, TAR \o <<".", "x", "z">>,
     TAR \o <<".", "z", "s", "t">>, TAR \o <<".", "z", "s", "t", "d">>}

\* "".join(path.suffixes[-2:]): pathlib finds no suffixes in a name that ends
\* with a dot and does not count leading dots; otherwise every dot starts a
\* suffix, and the last two joined are the name from its last dot but one on.
LastSuffixes(name) ==
    LET lead == CHOOSE n \in 0..Len(name) :
                    /\ \A i \in 1..n : name[i] = "."
                    /\ (n = Len(name) \/ name[n + 1] # ".")
        dots == {i \in (lead + 1)..Len(name) : name[i] = "."}
        before(i) == {j \in dots : j < i}
    IN IF name = <<>> \/ name[Len(name)] = "." \/ dots = {} THEN <<>>
       ELSE SubSeq(name,
                   CHOOSE i \in dots :
                       Cardinality(before(i)) = IF Cardinality(dots) >= 2
                                                THEN Cardinality(dots) - 2 ELSE 0,
                   Len(name))

\* The loader im_load picks by the suffix of the path, as written.
Loader(path) ==
    CASE Suffix(path) \in ZipSuffixes -> "zip"
      [] Suffix(path) \in SvgSuffixes -> "svg"
      [] Suffix(path) \in MhtmlSuffixes -> "mhtml"
      [] Suffix(path) \in TarSuffixes \/ LastSuffixes(path) \in TarDoubleSuffixes -> "tar"
      [] OTHER -> "direct"

\* The files of Folder have no SVG among them: load_svg is not entered.
Dispatch(w, path) ==
    With(Loader(path), LAMBDA loader :
      CASE loader = "zip" -> load_zip(w, path)
        [] loader = "mhtml" -> load_mhtml(w, path) @@ [held |-> FALSE]
        [] loader = "tar" -> load_tar(w, path) @@ [held |-> FALSE]
        [] loader = "direct" -> load_direct(w, path) @@ [held |-> FALSE])

\* im_load after the loader returned: the image's info, the frames and
\* im_resize.
AfterLoad(w) ==
    IF w.APP.im.isNone
    THEN Fail(w, Exc("AttributeError", "'NoneType' object has no attribute 'info'", FALSE))
    ELSE With([w EXCEPT !.APP.info.meta = w.APP.im.pil.info,
                        !.APP.info.Frames = IF w.APP.im.n_frames > 1
                                            THEN w.APP.im.n_frames ELSE @,
                        !.APP.im_frame = IF w.APP.im.n_frames > 1 /\ w.APP.b_animate
                                         THEN -1 ELSE 0],
              LAMBDA w2 : im_resize(w2, w2.APP.b_animate))

\* The traceback of a failed Image.open is dropped when the handler ends, and
\* with it the member's stream; l is what the loader gave.
Release(l, w) == IF l.exc # NoExc /\ l.held THEN [w EXCEPT !.open = @ - 1] ELSE w

\* im_load().  w.obs keeps what the call did: the path, the loader, APP.i_zip
\* at its start, whether the archive was still open when the loader ended,
\* whether loading failed and with what.
im_load(w0) ==
    With(path_get(w0), LAMBDA path :
    With(set_stats([w0 EXCEPT !.obs.path = path, !.obs.i_zip = w0.APP.i_zip], path),
         LAMBDA s :
    With(IF s.exc # NoExc THEN s @@ [held |-> FALSE] ELSE Dispatch(s.w, path),
         LAMBDA l :
    With(IF l.exc # NoExc THEN Fail(l.w, l.exc) ELSE AfterLoad(l.w), LAMBDA a :
    With([a.w EXCEPT !.obs.loader = IF s.exc # NoExc THEN "" ELSE Loader(path),
                     !.obs.held = l.held,
                     !.obs.load = IF a.exc = NoExc THEN "ok" ELSE "failed",
                     !.obs.load_exc = a.exc],
         LAMBDA w5 :
      LET isdir == FS(w0, path).kind = "dir"
      IN IF a.exc = NoExc THEN Done(w5)
         ELSE IF ~isdir /\ w5.APP.verbosity = DEBUG THEN Fail(Release(l, w5), a.exc)
         ELSE With(error_show(SetIm(w5, NoneIm),
                              Title("error", w0.APP.i_path + 1, Len(w0.APP.paths), 0,
                                    <<>>, path, IF isdir THEN NoExc ELSE a.exc),
                              isdir),
                   LAMBDA r : [r EXCEPT !.w = Release(l, r.w)]))))))

\* ------------------------------------------------------- the handlers

\* What a handler did, for last: whether it returned or raised, what its
\* im_load did, whether it called browse, in or outside archive browsing,
\* and for which position, and what the loop of browse_search did.
NoObs ==
    [ st |-> "returned", exc |-> NoExc, path |-> <<>>, loader |-> "",
     held |-> FALSE, load |-> "none", load_exc |-> NoExc, i_zip |-> 0,
     browse |-> [called |-> FALSE, archive |-> FALSE, new_index |-> 0],
     search |-> [called |-> FALSE, arr |-> <<>>, start |-> 0, s |-> <<>>,
                 examined |-> 0, found |-> FALSE, ended |-> TRUE, toast |-> FALSE]]

\* The state a handler starts from.
World ==
    [APP |-> APP, title |-> title, ERROR_OVERLAY |-> ERROR_OVERLAY, CANVAS |-> CANVAS,
     open |-> open_archives, timers |-> timers, obs |-> NoObs, fs |-> Folder]

\* The state a handler leaves, r being what its body gave.  The callbacks
\* the body scheduled are kept by LeaveTimers only.
Leave(r) ==
    /\ APP' = r.w.APP
    /\ title' = r.w.title
    /\ ERROR_OVERLAY' = r.w.ERROR_OVERLAY
    /\ CANVAS' = r.w.CANVAS
    /\ open_archives' = r.w.open
    /\ last' = [r.w.obs EXCEPT !.st = IF r.exc = NoExc THEN "returned" ELSE "raised",
                               !.exc = r.exc]
    /\ UNCHANGED callvars

LeaveTimers(r) ==
    /\ Leave(r)
    /\ timers' = r.w.timers

\* has_supported_extension of a path: a folder passes.
PathSupported(w, path) == FS(w, path).kind = "dir" \/ has_supported_extension(path)

\* except ValueError
IsValueError(e) == e.type \in {"ValueError", "UnicodeDecodeError"}

\* paths_sort(path, reverse), for the "natural" order.
paths_sort(w, path, reverse) ==
    IF w.APP.paths = <<>> THEN Done(w)
    ELSE With(IF w.APP.sort = "natural" THEN SortNatural(w.APP.paths, reverse)
              ELSE w.APP.paths,
              LAMBDA sorted :
         With(im_load([w EXCEPT !.APP.paths = sorted,
                                !.APP.i_path = IF InSeq(sorted, path)
                                               THEN IndexOf(sorted, path) - 1 ELSE @]),
              LAMBDA r :
           IF IsValueError(r.exc)
           THEN error_show(r.w, Title("error", 0, 0, 0, <<>>,
                                      IF r.exc.has_path THEN path ELSE <<>>, r.exc), FALSE)
           ELSE r))

\* paths_update(None, path): the folder of path is read.
paths_update(w, path) ==
    With([i \in 1..Len(w.fs) |-> w.fs[i].name], LAMBDA all :
    With(IF w.APP.filter_names THEN SelectSeq(all, LAMBDA p : PathSupported(w, p))
         ELSE all,
         LAMBDA paths :
      IF paths = <<>> THEN Done(w)
      ELSE paths_sort([w EXCEPT !.APP.paths = paths, !.APP.i_path = 0], path,
                      w.APP.reverse)))

\* paths_set(paths)
paths_set(w, paths) ==
    With([w EXCEPT !.APP.paths = paths, !.APP.i_path = 0, !.APP.i_zip = 0], LAMBDA w1 :
      IF paths = <<>> THEN Done(w1)
      ELSE IF Len(paths) = 1 THEN paths_update(w1, paths[1])
      ELSE im_load(w1))

\* browse_get(): the index of the list browsed.
InArchive(w) == w.APP.browse_archives /\ w.APP.info.hasNames
browse_get_i(w) == IF InArchive(w) THEN w.APP.i_zip ELSE w.APP.i_path
browse_get_len(w) == IF InArchive(w) THEN Len(w.APP.info.Names) ELSE Len(w.APP.paths)

\* The tail of browse without the step from the first path to the last.
BrowsePathStaysAtFirst(w, new_index) ==
    LET n == Len(w.APP.paths)
        i == IF new_index < 0 THEN 0 ELSE new_index
        j == IF i >= n THEN 0 ELSE i
    IN [w EXCEPT !.APP.i_path = j, !.APP.i_zip = 0]

\* The tail of browse: the path index wraps, the entry index is reset.
BrowsePath(w, new_index) ==
    LET n == Len(w.APP.paths)
        i == IF new_index < 0 THEN n - 1 ELSE new_index
        j == IF i >= n THEN 0 ELSE i
    IN [w EXCEPT !.APP.i_path = j, !.APP.i_zip = 0]

\* browse(pos=new_index), and browse(delta=d) with new_index = i + d.
browse(w0, new_index) ==
    With([w0 EXCEPT !.obs.browse = [called |-> TRUE, archive |-> InArchive(w0),
                                    new_index |-> new_index]],
         LAMBDA w :
    im_load(IF InArchive(w) /\ new_index # -1 /\ new_index # Len(w.APP.info.Names)
            THEN [w EXCEPT !.APP.i_zip = new_index]
            ELSE BrowsePath(w, CASE ~InArchive(w) -> new_index
                                 [] new_index = -1 -> w.APP.i_path - 1
                                 [] OTHER -> w.APP.i_path + 1)))

\* browse_get(): the list browsed.
browse_get_arr(w) == IF InArchive(w) THEN w.APP.info.Names ELSE w.APP.paths

RECURSIVE SearchLoop(_, _, _, _, _)
\* The while loop of browse_search from index i on, with the entries it has
\* examined counted.  Its only state is i: once it has been through every
\* index without a match and without meeting start it goes round for ever.
SearchLoop(arr, s, start, i, examined) ==
    LET j == (i + 1) % Len(arr)
    IN IF Contains(arr[j + 1], s)
       THEN [i |-> j, found |-> TRUE, examined |-> examined + 1, ended |-> TRUE]
       ELSE IF j = start
       THEN [i |-> j, found |-> FALSE, examined |-> examined + 1, ended |-> TRUE]
       ELSE IF examined + 1 >= Len(arr)
       THEN [i |-> j, found |-> FALSE, examined |-> examined + 1, ended |-> FALSE]
       ELSE SearchLoop(arr, s, start, j, examined + 1)

\* browse_search(), s being what the dialog gave (<<>>: nothing).  arr[i]
\* for the dialog's initial value raises outside -len(arr)..len(arr)-1; a
\* loop that does not end leaves the handler without toast and browse.
browse_search(w, s) ==
    LET i == browse_get_i(w)
        arr == browse_get_arr(w)
    IN IF i >= Len(arr) \/ i < -Len(arr)
       THEN Fail(w, Exc("IndexError", "list index out of range", FALSE))
       ELSE IF s = <<>> THEN Done(w)
       ELSE With(SearchLoop(arr, s, i, i, 0), LAMBDA l :
            With([w EXCEPT !.obs.search =
                     [called |-> TRUE, arr |-> arr, start |-> i, s |-> s,
                      examined |-> l.examined, found |-> l.found, ended |-> l.ended,
                      toast |-> l.ended /\ ~l.found]],
                 LAMBDA w1 :
              IF l.ended THEN browse(w1, l.i) ELSE Done(w1)))

\* info_toggle()
info_toggle(w) ==
    IF w.APP.showing # "info"
    THEN With([w EXCEPT !.APP.showing = "info"], LAMBDA w1 :
         With(info_get(IF w1.APP.im.isNone THEN NoImage ELSE w1.APP.im.pil,
                       InfoItems(w1.APP.info), path_get(w1), Host),
              LAMBDA r :
           IF Raised(r) THEN Fail(w1, Exc(r.exc, "", FALSE))
           ELSE Done([w1 EXCEPT !.ERROR_OVERLAY.lifted = FALSE,
                                !.CANVAS.text = w1.title])))
    ELSE Done([w EXCEPT !.APP.showing = "", !.CANVAS.text = NoTitle])

\* set_verbosity(event): V raises the level by 10, v lowers it; it wraps
\* between DEBUG and CRITICAL.
set_verbosity(w, keysym) ==
    LET v == w.APP.verbosity + (IF keysym = "V" THEN 10 ELSE -10)
        v1 == IF v < DEBUG THEN CRITICAL ELSE v
        v2 == IF v1 > CRITICAL THEN DEBUG ELSE v1
    IN Done([w EXCEPT !.APP.verbosity = v2])

\* ------------------------------------------------------ the viewer

\* The levels main leaves the log at: VERBOSITY_LEVELS[min(4, 1 + count)] for
\* -v given count times (CRITICAL without), then set_verbosity().
StartLevels == {40, 20, 10, 50}

\* The path argument the viewer is started with.
StartPaths == FileNames

Init ==
    /\ arg = NoRet
    /\ ret = NoRet
    /\ \E level \in StartLevels, archives \in BOOLEAN, filter \in {TRUE} :
          APP = [paths |-> <<>>, i_path |-> 0, i_zip |-> 0, im |-> NoneIm,
                 info |-> EmptyInfo, im_frame |-> 0, b_animate |-> TRUE,
                 b_slideshow |-> FALSE,
                 browse_archives |-> archives, filter_names |-> filter,
                 reverse |-> FALSE, sort |-> "natural", showing |-> "",
                 old |-> [has_path |-> FALSE, i_path |-> 0, has_zip |-> FALSE, i_zip |-> 0],
                 verbosity |-> level]
    /\ title = NoTitle
    /\ ERROR_OVERLAY = [lifted |-> FALSE]
    /\ CANVAS = [text |-> NoTitle]
    /\ open_archives = 0
    /\ timers \in {{[fn |-> "paths_update", path |-> p]} : p \in StartPaths}
    /\ last = NoObs

\* The numbers typed into the Index dialog, the last one beyond every list.
IndexInputs == {-MaxIndex, -1, 0, 1, 2, MaxIndex, 4 * MaxIndex}

\* Stepping stays within the positions the dialog can ask for; through the
\* paths it is also followed across the two ends of the list.
Typed(w, new_index) ==
    \/ new_index >= -MaxIndex - 1 /\ new_index <= MaxIndex
    \/ ~InArchive(w) /\ new_index = Len(w.APP.paths)

\* The handlers other than the timers run once the paths are read.
Started == timers = {} /\ APP.paths # <<>>

\* APP.after(10, paths_update, None, args.path) fires.
PathsUpdateTimer ==
    \E t \in timers :
        /\ t.fn = "paths_update"
        /\ timers' = timers \ {t}
        /\ Leave(paths_update(World, t.path))

BrowseNext ==
    /\ Started
    /\ UNCHANGED timers
    /\ With(World, LAMBDA w :
          /\ Typed(w, browse_get_i(w) + 1)
          /\ Leave(browse(w, browse_get_i(w) + 1)))

BrowsePrev ==
    /\ Started
    /\ UNCHANGED timers
    /\ With(World, LAMBDA w :
          /\ Typed(w, browse_get_i(w) - 1)
          /\ Leave(browse(w, browse_get_i(w) - 1)))

BrowseHome ==
    /\ Started
    /\ UNCHANGED timers
    /\ Leave(browse(World, 0))

BrowseEnd ==
    /\ Started
    /\ UNCHANGED timers
    /\ With(World, LAMBDA w : Leave(browse(w, browse_get_len(w) - 1)))

\* browse_index: the dialog gives i; nothing happens for 0 or a cancel.
BrowseIndex ==
    /\ Started
    /\ UNCHANGED timers
    /\ \E i \in IndexInputs :
          Leave(IF i = 0 THEN Done(World) ELSE browse(World, i - 1))

BrowseArchiveToggle ==
    /\ Started
    /\ UNCHANGED timers
    /\ Leave(Done([World EXCEPT !.APP.browse_archives = ~@]))

InfoToggle ==
    /\ Started
    /\ UNCHANGED timers
    /\ Leave(info_toggle(World))

SetVerbosity ==
    /\ Started
    /\ UNCHANGED timers
    /\ \E keysym \in {"v", "V"} : Leave(set_verbosity(World, keysym))

Next ==
    \/ PathsUpdateTimer
    \/ BrowseNext
    \/ BrowsePrev
    \/ BrowseHome
    \/ BrowseEnd
    \/ BrowseIndex
    \/ BrowseArchiveToggle
    \/ InfoToggle
    \/ SetVerbosity

Spec == Init /\ [][Next]_vars

\* ------------------------------- the viewer with the Open dialog

\* The files picked in the dialog of path_open: two files in either order,
\* a container before a file, and one file.
Selections ==
    { << <<"a">> \o PNG, <<"b">> \o GIF >>,
      << <<"b">> \o GIF, <<"a">> \o PNG >>,
      << <<"e">> \o ZIP, <<"a">> \o PNG >>,
      << <<"b">> \o GIF >> }

\* path_open: the dialog gives filenames; nothing happens without any.
PathOpen ==
    /\ Started
    /\ UNCHANGED timers
    /\ \E filenames \in Selections \cup {<<>>} :
          Leave(IF filenames = <<>> THEN Done(World) ELSE paths_set(World, filenames))

NextOpen ==
    \/ PathsUpdateTimer
    \/ PathOpen
    \/ BrowseNext
    \/ InfoToggle

SpecOpen == Init /\ [][NextOpen]_vars

\* ------------------------------------------- the viewer with the search

\* The texts given to the dialog of browse_search: nothing, parts of names
\* and a text no name has.
SearchTexts == {<<>>, Tail(PNG), Tail(GIF), <<"1">>, <<"z", "z">>}

\* A handler whose loop does not end keeps the viewer from running another.
Responsive == last.search.ended

SearchIndex ==
    /\ Responsive
    /\ BrowseIndex

BrowseSearch ==
    /\ Started
    /\ Responsive
    /\ UNCHANGED timers
    /\ \E s \in SearchTexts : Leave(browse_search(World, s))

NextSearch ==
    \/ PathsUpdateTimer
    \/ SearchIndex
    \/ BrowseSearch

SpecSearch == Init /\ [][NextSearch]_vars

\* --------------------------------------------- the viewer with its timers

\* slideshow_toggle()
slideshow_toggle(w) ==
    With([w EXCEPT !.APP.b_slideshow = ~@], LAMBDA w1 :
      IF w1.APP.b_slideshow
      THEN Done([w1 EXCEPT !.timers = After(@, "slideshow_run")])
      ELSE Done(w1))

\* What slideshow_run catches of browse.
SlideshowCaught == {"UnidentifiedImageError", "PermissionError"}

\* slideshow_run(), the callback: an exception it does not catch ends it
\* before APP.after.
slideshow_run(w) ==
    IF ~w.APP.b_slideshow THEN Done(w)
    ELSE With(browse(w, browse_get_i(w) + 1), LAMBDA r :
           IF r.exc = NoExc \/ r.exc.type \in SlideshowCaught
           THEN Done([r.w EXCEPT !.timers = After(@, "slideshow_run")])
           ELSE r)

\* animation_toggle()
animation_toggle(w) ==
    With([w EXCEPT !.APP.b_animate = ~@], LAMBDA w1 :
      IF w1.APP.b_animate THEN im_resize(w1, w1.APP.b_animate) ELSE Done(w1))

\* The pending callbacks of fn.
Pending(fn) == {t \in timers : t.fn = fn}

\* The world a callback runs in: it is no longer pending.
Fired(t) == [World EXCEPT !.timers = @ \ {t}]

\* The keys are followed once the paths are read.
Running == Pending("paths_update") = {} /\ APP.paths # <<>>

\* APP.after(10, paths_update, None, args.path) fires.
PathsRead ==
    \E t \in Pending("paths_update") : LeaveTimers(paths_update(Fired(t), t.path))

\* The key of slideshow_toggle; it is followed while fewer than MaxPending
\* callbacks of slideshow_run are pending.
SlideshowToggle ==
    /\ Running
    /\ Cardinality(Pending("slideshow_run")) < MaxPending
    /\ LeaveTimers(slideshow_toggle(World))

\* A callback of slideshow_run fires.
SlideshowTimer ==
    \E t \in Pending("slideshow_run") : LeaveTimers(slideshow_run(Fired(t)))

\* The key of animation_toggle.
AnimationToggle ==
    /\ Running
    /\ LeaveTimers(animation_toggle(World))

\* A callback of im_resize fires with the argument it was scheduled with.
AnimationTimer ==
    \E t \in Pending("im_resize") : LeaveTimers(im_resize(Fired(t), t.loop))

NextTimers ==
    \/ PathsRead
    \/ SlideshowToggle
    \/ SlideshowTimer
    \/ AnimationToggle
    \/ AnimationTimer

SpecTimers == Init /\ [][NextTimers]_vars

\* ------------------------------------------ the calls of natural_sort

\* The digit runs of the names drawn.
RunDigits == {"0", "1", "9"}
DigitRuns == SeqsUpTo(RunDigits, MaxRun) \ {<<>>}

\* What stands before a digit run and what stands after it: text of either
\* case, a blank, dots, other digit runs, and a superscript two, which
\* str.isdigit() accepts and \d does not.
Stems ==
    { <<>>, <<"k">>, <<"K", "o">>, <<"k", " ">>, <<"7", ".">>, <<"k", "^2">>, <<"^2">> }
Tails ==
    { <<>>, <<".", "g">>, <<"K">>, <<" ", "7">>, <<".", "7", "z">>, <<"^2", ".", "g">> }

\* Text that lengthens a stem.
StemExtensions == { <<" ">>, <<"_">>, <<"K">>, <<"k", " ">> }

\* Extensions, without their dot.
Extensions == { <<"g">>, <<"G", "i", "f">>, <<"7", "z">> }

Koko == <<"k", "o", "k", "o">>
DotGif == <<".", "g", "i", "f">>
DotJpg == <<".", "j", "p", "g">>

\* The lists sorted: two names that differ in one digit run (parts: what
\* stands before, the two runs, what stands after); a stem with a run and an
\* extension, the same with a lengthened stem, and the stem with the
\* extension alone (parts: stem, lengthening, run, extension); and the lists
\* of the doctest and of a folder of numbered pictures.
SortArgs ==
    { [kind |-> "runs", parts |-> <<p, d1, d2, s>>,
       names |-> <<p \o d1 \o s, p \o d2 \o s>>] :
        p \in Stems, d1 \in DigitRuns, d2 \in DigitRuns, s \in Tails }
    \cup { [kind |-> "dots", parts |-> <<s, x, d, e>>,
            names |-> <<s \o d \o <<".">> \o e, s \o x \o d \o <<".">> \o e,
                        s \o <<".">> \o e>>] :
             s \in Stems, x \in StemExtensions, d \in DigitRuns, e \in Extensions }
    \cup { [kind |-> "list", parts |-> <<>>,
            names |-> <<Koko \o <<"2">> \o DotGif,
                        Koko \o <<" ", "0", "0", "0", "4">> \o DotGif,
                        Koko \o DotGif>>],
           [kind |-> "list", parts |-> <<>>,
            names |-> << <<"1", "0">> \o DotJpg, <<"2">> \o DotJpg, <<"1">> \o DotJpg>>] }

\* names.sort(key=natural_sort): the key of every name is worked out first,
\* and an exception of natural_sort leaves the sort.  Ret(sorted list) or
\* the exception, with the keys.
SortCall(names) ==
    With([i \in 1..Len(names) |-> natural_sort(names[i])], LAMBDA keys :
      (IF \E i \in 1..Len(keys) : Raised(keys[i]) THEN Raise("ValueError")
       ELSE Ret(SortNatural(names, FALSE)))
      @@ [keys |-> keys])

InitSort ==
    /\ arg \in SortArgs
    /\ ret = NoRet
    /\ NotRunning

NaturalSortCall ==
    /\ ret = NoRet
    /\ ret' = SortCall(arg.names)
    /\ UNCHANGED arg
    /\ UNCHANGED appvars

NextSort == NaturalSortCall

SpecSort == InitSort /\ [][NextSort]_vars

\* ------------------------------------- the choice of a loader in im_load

\* Every spelling of s in upper and lower case.
CaseVariants(s) ==
    {[i \in 1..Len(s) |-> IF i \in U THEN UpperChar(s[i]) ELSE LowerChar(s[i])] :
        U \in SUBSET (1..Len(s))}

\* The suffixes im_load names, and two it does not.
LoaderSuffixes ==
    ZipSuffixes \cup SvgSuffixes \cup MhtmlSuffixes \cup TarSuffixes \cup TarDoubleSuffixes
    \cup {PNG, <<".", "g", "z">>}

\* The paths loaded: a name, with or without a dot of its own, and a suffix
\* in any spelling.
LoaderPaths ==
    {stem \o t : stem \in {<<"a">>, <<"A", ".", "b">>, <<".", "a">>},
                 t \in UNION {CaseVariants(s) : s \in LoaderSuffixes}}

InitLoader ==
    /\ arg \in [path : LoaderPaths]
    /\ ret = NoRet
    /\ NotRunning

\* im_load as far as the loader it enters.
ImLoadDispatch ==
    /\ ret = NoRet
    /\ ret' = Ret(Loader(arg.path))
    /\ UNCHANGED arg
    /\ UNCHANGED appvars

NextLoader == ImLoadDispatch

SpecLoader == InitLoader /\ [][NextLoader]_vars

\* ----------------------------------------------- the calls of load_mhtml

\* Header names and values of the parts drawn, as written in the document.

CONTENT_TYPE ==
    <<"C", "o", "n", "t", "e", "n", "t", "-", "T", "y", "p", "e">>

CONTENT_TRANSFER_ENCODING ==
    <<"C", "o", "n", "t", "e", "n", "t", "-", "T", "r", "a", "n", "s", "f", "e", "r", "-",
      "E", "n", "c", "o", "d", "i", "n", "g">>

CONTENT_LOCATION ==
    <<"C", "o", "n", "t", "e", "n", "t", "-", "L", "o", "c", "a", "t", "i", "o", "n">>

BASE64 == <<"b", "a", "s", "e", "6", "4">>
SEVENBIT == <<"7", "b", "i", "t">>
IMAGE_PNG == <<"i", "m", "a", "g", "e", "/", "p", "n", "g">>
TEXT_HTML == <<"t", "e", "x", "t", "/", "h", "t", "m", "l">>

\* The data of a part: base64 text, here one token for the whole of it, and
\* what its bytes are.
PngData == "iVBORw0KGgo"
GifData == "R0lGODlh"
TextData == "PGh0bWw+"

\* The strings load_mhtml looks for in the lower-cased headers.

BASE64_MARK ==
    <<NL, "c", "o", "n", "t", "e", "n", "t", "-", "t", "r", "a", "n", "s", "f", "e", "r",
      "-", "e", "n", "c", "o", "d", "i", "n", "g", ":", " ", "b", "a", "s", "e", "6", "4">>

TYPE_MARK ==
    <<NL, "c", "o", "n", "t", "e", "n", "t", "-", "t", "y", "p", "e", ":">>

IMAGE_MARK ==
    <<NL, "c", "o", "n", "t", "e", "n", "t", "-", "t", "y", "p", "e", ":", " ", "i", "m",
      "a", "g", "e">>

\* p.split("\n\n", maxsplit=1): where the first blank line of the part is.
BlankLines(p) == {i \in 1..(Len(p) - 1) : p[i] = NL /\ p[i + 1] = NL}
FirstBlank(p) == CHOOSE i \in BlankLines(p) : \A j \in BlankLines(p) : i <= j
PartMeta(p) == SubSeq(p, 1, FirstBlank(p) - 1)
PartData(p) == SubSeq(p, FirstBlank(p) + 2, Len(p))

\* "\ncontent-transfer-encoding: base64" in m
MetaBase64(m) == Contains(m, BASE64_MARK)

\* The two tests on the content type: "" when the headers name none, "image"
\* when they hold "\ncontent-type: image", "text" otherwise.
MetaCtype(m) ==
    IF ~Contains(m, TYPE_MARK) THEN ""
    ELSE IF Contains(m, IMAGE_MARK) THEN "image"
    ELSE "text"

\* s.split("\n"), as a set.
Lines(s) ==
    LET ends == {0, Len(s) + 1} \cup {i \in 1..Len(s) : s[i] = NL}
    IN {SubSeq(s, a + 1, b - 1) :
          <<a, b>> \in {ab \in ends \X ends :
                          /\ ab[1] < ab[2]
                          /\ \A e \in ends : ~(ab[1] < e /\ e < ab[2])}}

\* sorted(meta.strip().split("\n"))[0].split("/")[-1]
MetaName(meta) ==
    LET lines == Lines(Strip(meta))
        first == CHOOSE l \in lines : \A o \in lines : o = l \/ TextLess(l, o)
        slashes == {i \in 1..Len(first) : first[i] = "/"}
    IN IF slashes = {} THEN first
       ELSE SubSeq(first, (CHOOSE i \in slashes : \A j \in slashes : j <= i) + 1,
                   Len(first))

\* base64.standard_b64decode(data.rstrip()) and Image.open: characters
\* outside the base64 alphabet (the line ends, the dashes before the next
\* boundary) are dropped.
DataPicture(data) ==
    With(SelectSeq(data, LAMBDA c : c \notin {NL, "-"}), LAMBDA body :
      CASE body = <<PngData>> -> Good
        [] body = <<GifData>> -> Animated
        [] OTHER -> Unidentified)

\* One part of the text between two boundaries, as load_mhtml reads it.
ReadPart(p) ==
    IF BlankLines(p) = {} THEN Part(FALSE, FALSE, "", <<>>, Unidentified)
    ELSE Part(TRUE, MetaBase64(Lower(PartMeta(p))), MetaCtype(Lower(PartMeta(p))),
              MetaName(PartMeta(p)), DataPicture(PartData(p)))

\* The header lines drawn for a part: the encoding as base64, with and
\* without the blank after the colon, or as 7bit; no content type, an image
\* one, with and without the blank, or a text one.
EncodingLines ==
    { CONTENT_TRANSFER_ENCODING \o <<":", " ">> \o BASE64 \o <<NL>>,
      CONTENT_TRANSFER_ENCODING \o <<":">> \o BASE64 \o <<NL>>,
      CONTENT_TRANSFER_ENCODING \o <<":", " ">> \o SEVENBIT \o <<NL>> }
TypeLines ==
    { <<>>,
      CONTENT_TYPE \o <<":", " ">> \o IMAGE_PNG \o <<NL>>,
      CONTENT_TYPE \o <<":">> \o IMAGE_PNG \o <<NL>>,
      CONTENT_TYPE \o <<":", " ">> \o TEXT_HTML \o <<NL>> }
PngLocationAndData ==
    CONTENT_LOCATION \o <<":", " ", "x", "/", "1", ".", "p", "n", "g", NL, NL, PngData>>
GifLocationAndData ==
    CONTENT_LOCATION \o <<":", " ", "x", "/", "2", ".", "g", "i", "f", NL, NL, GifData>>

\* What stands between two boundaries: a line end, the headers, a blank
\* line, the data, and the two dashes before the next boundary.  Every pair
\* of header lines comes before the one picture, and base64 with an image
\* type or none before the other picture too.
PartTexts ==
    { <<NL>> \o t \o e \o PngLocationAndData \o <<NL, "-", "-">> :
        t \in TypeLines, e \in EncodingLines }
    \cup { <<NL>> \o t \o CONTENT_TRANSFER_ENCODING \o <<":", " ">> \o BASE64 \o <<NL>>
             \o GifLocationAndData \o <<NL, "-", "-">> :
             t \in {<<>>, CONTENT_TYPE \o <<":", " ">> \o IMAGE_PNG \o <<NL>>} }

MhtPath == <<"m">> \o MHT

RECURSIVE ReadParts(_)
\* The parts in the order of the document.
ReadParts(texts) ==
    IF texts = <<>> THEN <<>>
    ELSE <<ReadPart(Head(texts))>> \o ReadParts(Tail(texts))

\* The state load_mhtml starts from, the document having a boundary.
MhtmlWorld(i_zip, parts) ==
    [APP |-> [i_zip |-> i_zip, info |-> EmptyInfo, im |-> NoneIm],
     open |-> 0,
     fs |-> << [name |-> MhtPath, file |-> Mhtml(TRUE, parts)] >>]

InitMhtml ==
    /\ arg \in [parts : SeqsUpTo(PartTexts, MaxParts), i_zip : (-1)..(MaxParts - 1)]
    /\ ret = NoRet
    /\ NotRunning

LoadMhtmlCall ==
    /\ ret = NoRet
    /\ \E parts \in {ReadParts(arg.parts)} :
          ret' = With(load_mhtml(MhtmlWorld(arg.i_zip, parts), MhtPath), LAMBDA r :
                   [st |-> IF r.exc = NoExc THEN "returned" ELSE "raised",
                    exc |-> r.exc,
                    hasNames |-> r.w.APP.info.hasNames,
                    Names |-> r.w.APP.info.Names,
                    im |-> r.w.APP.im])
    /\ UNCHANGED arg
    /\ UNCHANGED appvars

NextMhtml == LoadMhtmlCall

SpecMhtml == InitMhtml /\ [][NextMhtml]_vars

\* ------------------------------------------- the calls of load_svg

\* The text of an SVG file is a sequence of tags in document order; a tag is
\* its name and its attributes k="v" in the order written, names and values
\* being sequences of characters.
Attr(k, v) == [k |-> k, v |-> v]
Tag(name, attrs) == [name |-> name, attrs |-> attrs]

VIEWBOX == <<"v", "i", "e", "w", "b", "o", "x">>
WIDTH == <<"w", "i", "d", "t", "h">>
HEIGHT == <<"h", "e", "i", "g", "h", "t">>

\* [, 0-9.] and [0-9.] of the patterns.
SizeChars == {Digits[i] : i \in 1..Len(Digits)} \cup {"."}
ViewBoxChars == SizeChars \cup {",", " "}

\* re.findall(r'viewbox\s*=\s*"([, 0-9.]+)"', data, re.DOTALL | re.IGNORECASE):
\* the values of the attributes, of any tag, whose name ends with viewbox in
\* either case and whose value is made of the characters of the class.
FindViewBox(data) ==
    With(Concat([i \in 1..Len(data) |-> data[i].attrs]), LAMBDA attrs :
      With(SelectSeq(attrs, LAMBDA a : /\ EndsWith(Lower(a.k), VIEWBOX)
                                       /\ a.v # <<>>
                                       /\ \A i \in 1..Len(a.v) : a.v[i] \in ViewBoxChars),
           LAMBDA found : [i \in 1..Len(found) |-> found[i].v]))

\* Whether rf'{k}\s*=\s*"([0-9.]+)"' matches the attribute.
SizeAttr(a, k) ==
    /\ EndsWith(a.k, k)
    /\ a.v # <<>>
    /\ \A i \in 1..Len(a.v) : a.v[i] \in SizeChars

\* re.findall(rf'<svg [^>]*?{k}\s*=\s*"([0-9.]+)"[^>]*>', data): for every
\* tag svg that has such an attribute, the value of the first one in it.
FindSize(data, k) ==
    With(SelectSeq(data, LAMBDA t : /\ t.name = "svg"
                                    /\ \E i \in 1..Len(t.attrs) : SizeAttr(t.attrs[i], k)),
         LAMBDA tags :
           [n \in 1..Len(tags) |->
              tags[n].attrs[Least({i \in 1..Len(tags[n].attrs) :
                                     SizeAttr(tags[n].attrs[i], k)})].v])

RECURSIVE SplitSeparators(_, _, _)
\* re.split("[, ]+", s): the pieces between runs of commas and blanks, the
\* empty piece before a leading run and after a trailing one included.  cur
\* is the piece gathered so far, inRun whether the last character was a
\* separator.
SplitSeparators(s, cur, inRun) ==
    IF s = <<>> THEN <<cur>>
    ELSE IF Head(s) \in {",", " "}
         THEN IF inRun THEN SplitSeparators(Tail(s), cur, TRUE)
              ELSE <<cur>> \o SplitSeparators(Tail(s), <<>>, TRUE)
         ELSE SplitSeparators(Tail(s), Append(cur, Head(s)), FALSE)

\* float(s) of a text of digits and dots, in tenths: digits with at most one
\* dot among them, anything else is a ValueError.  The texts read have at
\* most one digit behind the dot.
ParseFloat(s) ==
    With({i \in 1..Len(s) : s[i] = "."}, LAMBDA dots :
      IF Cardinality(dots) > 1 \/ Len(s) - Cardinality(dots) = 0
      THEN Raise("ValueError")
      ELSE IF dots = {} THEN Ret(10 * ParseInt(s, 0))
      ELSE With(Least(dots), LAMBDA d :
             Ret(10 * ParseInt(SubSeq(s, 1, d - 1), 0)
                 + ParseInt(SubSeq(s, d + 1, Len(s)), 0))))

\* round(x) of a number of tenths: to the nearest integer, a half to the
\* even one.
PyRound(tenths) ==
    With(tenths \div 10, LAMBDA q :
      CASE tenths % 10 < 5 -> q
        [] tenths % 10 > 5 -> q + 1
        [] OTHER -> IF q % 2 = 0 THEN q ELSE q + 1)

RECURSIVE RoundAll(_)
\* [round(float(v)) for v in texts]
RoundAll(texts) ==
    IF texts = <<>> THEN Ret(<<>>)
    ELSE With(ParseFloat(Head(texts)), LAMBDA f :
           IF Raised(f) THEN f
           ELSE With(RoundAll(Tail(texts)), LAMBDA rest :
                  IF Raised(rest) THEN rest
                  ELSE Ret(<<PyRound(f.value)>> \o rest.value)))

Fits == [NONE |-> 0, ALL |-> 1, BIG |-> 2, SMALL |-> 3]

\* A float that is the quotient of two integers.
Ratio(num, den) == [num |-> num, den |-> den]

\* get_fit_ratio: env holds APP.fit and the width and height of the window.
get_fit_ratio(env, im_w, im_h) ==
    IF \/ env.fit = Fits.ALL /\ (im_w # env.w \/ im_h # env.h)
       \/ env.fit = Fits.BIG /\ (im_w > env.w \/ im_h > env.h)
       \/ env.fit = Fits.SMALL /\ (im_w < env.w /\ im_h < env.h)
    THEN IF im_w = 0 \/ im_h = 0 THEN Raise("ZeroDivisionError")
         ELSE IF env.w * im_h <= env.h * im_w
              THEN Ret(Ratio(env.w, im_w)) ELSE Ret(Ratio(env.h, im_h))
    ELSE Ret(Ratio(1, 1))

\* The size of load_svg after its first try block: the numbers of the first
\* viewBox from the third on, or None, here the empty list, without one.
ViewBoxSize(data) ==
    With(FindViewBox(data), LAMBDA found :
      IF found = <<>> THEN Ret(<<>>)
      ELSE With(RoundAll(SplitSeparators(found[1], <<>>, FALSE)), LAMBDA r :
             IF Raised(r) THEN r ELSE Ret(Drop(r.value, 2))))

\* The size after the second try block: width and height of the svg tag when
\* both are found, the size so far when one is missing.
WidthHeightSize(data, size) ==
    With(FindSize(data, WIDTH), LAMBDA ws :
    With(FindSize(data, HEIGHT), LAMBDA hs :
      IF ws = <<>> THEN Ret(size)
      ELSE With(ParseFloat(ws[1]), LAMBDA fw :
             IF Raised(fw) THEN fw
             ELSE IF hs = <<>> THEN Ret(size)
             ELSE With(ParseFloat(hs[1]), LAMBDA fh :
                    IF Raised(fh) THEN fh
                    ELSE Ret(<<PyRound(fw.value), PyRound(fh.value)>>)))))

\* re.sub("<svg([^>]+)>", ...): every tag svg that has attributes gets a
\* width, a height and a transform behind them.
Inject(data, size, r) ==
    [i \in 1..Len(data) |->
       IF data[i].name = "svg" /\ data[i].attrs # <<>>
       THEN data[i] @@ [width |-> Ratio(size[1] * r.num, r.den),
                        height |-> Ratio(size[2] * r.num, r.den),
                        scale |-> r]
       ELSE data[i]]

\* load_svg on the text read from the file: what it raises, or the size and
\* the ratio it used and the text it hands to the renderer, whose picture
\* becomes APP.im.
load_svg(data, env) ==
    With(ViewBoxSize(data), LAMBDA s1 :
      IF Raised(s1) THEN s1
      ELSE With(WidthHeightSize(data, s1.value), LAMBDA s2 :
             IF Raised(s2) THEN s2
             ELSE With(s2.value, LAMBDA size :
                    IF size = <<>>
                    THEN Ret([size |-> size, scaled |-> FALSE, data |-> data])
                    ELSE IF Len(size) # 2 THEN Raise("TypeError")
                    ELSE With(get_fit_ratio(env, size[1], size[2]), LAMBDA r :
                           IF Raised(r) THEN r
                           ELSE Ret([size |-> size, scaled |-> TRUE, r |-> r.value,
                                     data |-> Inject(data, size, r.value)])))))

\* Values of a viewBox: four numbers with blanks or commas, with halves,
\* three numbers, a leading blank, and an empty box.
ViewBoxValues ==
    { <<"0", " ", "0", " ", "4", "0", " ", "2", "0">>,
      <<"0", ",", "0", ",", " ", "3", "0", ",", "3", "0">>,
      <<"0", " ", "0", " ", "4", ".", "5", " ", "2", ".", "5">>,
      <<"0", " ", "0", " ", "4", "0">>,
      <<" ", "0", " ", "0", " ", "4", "0", " ", "2", "0">>,
      <<"0", " ", "0", " ", "0", " ", "0">> }

\* Values of width and height: numbers, lengths with a unit, and a text of
\* the class [0-9.] that is no number.
WidthValues ==
    { <<"8", "0">>, <<"7", ".", "5">>, <<"8", "0", "p", "x">>, <<"1", ".", "2", ".", "3">> }
HeightValues == { <<"6", "0">>, <<"1", "0", "0", "%">> }

\* The attributes of the root tag: each of viewBox, stroke-width, width and
\* height there or not.
RootAttrs ==
    { vb \o sw \o wd \o ht :
        vb \in {<<>>} \cup {<<Attr(<<"v", "i", "e", "w", "B", "o", "x">>, v)>> :
                             v \in ViewBoxValues},
        sw \in {<<>>, <<Attr(<<"s", "t", "r", "o", "k", "e", "-">> \o WIDTH, <<"2">>)>>},
        wd \in {<<>>} \cup {<<Attr(WIDTH, v)>> : v \in WidthValues},
        ht \in {<<>>} \cup {<<Attr(HEIGHT, v)>> : v \in HeightValues} }

\* The tags inside the root: a symbol with a viewBox of its own, and a
\* nested svg with a width and a height.
InnerTags ==
    { Tag("symbol", <<Attr(<<"v", "i", "e", "w", "B", "o", "x">>,
                           <<"0", " ", "0", " ", "1", "0", " ", "1", "0">>)>>),
      Tag("svg", <<Attr(WIDTH, <<"5">>), Attr(HEIGHT, <<"5">>)>>) }

SvgTexts ==
    { <<Tag("svg", a)>> \o inner : a \in RootAttrs, inner \in SeqsUpTo(InnerTags, MaxInner) }

\* APP.fit and the size of the window.
SvgEnvs == [fit : 0..3, w : {40}, h : {40, 10}]

InitSvg ==
    /\ arg \in [data : SvgTexts, env : SvgEnvs]
    /\ ret = NoRet
    /\ NotRunning

LoadSvgCall ==
    /\ ret = NoRet
    /\ ret' = load_svg(arg.data, arg.env)
    /\ UNCHANGED arg
    /\ UNCHANGED appvars

NextSvg == LoadSvgCall

SpecSvg == InitSvg /\ [][NextSvg]_vars

\* ------------------------------------------------ the calls of path_save

JPG == <<".", "j", "p", "g">>
WEBP == <<".", "w", "e", "b", "p">>

\* filename.split(".")[-1]
LastPart(filename) ==
    LET dots == {i \in 1..Len(filename) : filename[i] = "."}
    IN IF dots = {} THEN filename
       ELSE SubSeq(filename, (CHOOSE i \in dots : \A j \in dots : j <= i) + 1,
                   Len(filename))

\* filename.endswith("webp")
EndsWithWebp(filename) ==
    Len(filename) >= 4 /\ SubSeq(filename, Len(filename) - 3, Len(filename)) = Tail(WEBP)

\* The formats of Image.SAVE_ALL among those drawn.
SAVE_ALL == {<<"G", "I", "F">>, <<"P", "N", "G">>, <<"W", "E", "B", "P">>}

JPEG == <<"J", "P", "E", "G">>

EXIF_TOO_LONG == "EXIF data is too long"
CANNOT_WRITE_RGBA == "cannot write mode RGBA as JPEG"

\* im.save(filename, None, **im_info, ...): the JPEG writer refuses the mode
\* RGBA and, after that, an exif keyword longer than a segment holds.
ImSave(im, fmt, keys) ==
    IF fmt = JPEG /\ im.mode = "RGBA" THEN Exc("OSError", CANNOT_WRITE_RGBA, FALSE)
    ELSE IF fmt = JPEG /\ "exif" \in keys /\ im.exif_long
    THEN Exc("ValueError", EXIF_TOO_LONG, FALSE)
    ELSE NoExc

\* APP.im.convert(newmode): an Image.Image of the new mode with the same info
\* and without n_frames.
Convert(im, newmode) == [im EXCEPT !.mode = newmode, !.n_frames = 0]

\* What a call of path_save did: st is "returned" or "raised", saved tells
\* whether im.save returned and 'Saved' was shown, saves counts the calls of
\* im.save, noexif and rgb the retries entered.
SaveOutcome(st, exc, saved, saves, noexif, rgb) ==
    [st |-> st, exc |-> exc, saved |-> saved, saves |-> saves, noexif |-> noexif,
     rgb |-> rgb]

\* The body of the try block of path_save: the exception it ends with.
SaveTry(im, filename, fmt, save_all, noexif) ==
    IF noexif /\ "exif" \notin im.keys THEN Exc("KeyError", "'exif'", FALSE)
    ELSE IF "duration" \notin im.keys THEN Exc("KeyError", "'duration'", FALSE)
    ELSE IF save_all /\ EndsWithWebp(filename) /\ "background" \notin im.keys
    THEN Exc("KeyError", "'background'", FALSE)
    ELSE ImSave(im, fmt,
                im.keys \ ((IF noexif THEN {"exif"} ELSE {}) \cup {"duration"}
                           \cup (IF save_all /\ EndsWithWebp(filename)
                                 THEN {"background"} ELSE {})))

\* Whether the try block got as far as im.save.
SaveReached(im, filename, save_all, noexif) ==
    /\ ~(noexif /\ "exif" \notin im.keys)
    /\ "duration" \in im.keys
    /\ ~(save_all /\ EndsWithWebp(filename) /\ "background" \notin im.keys)

RECURSIVE path_save(_, _, _)
\* path_save(filename=..., newmode=..., noexif=...); a.filename is what the
\* dialog gave when none was passed, a.lose_frames and a.lose_exif are the
\* answers to the two questions.
path_save(a, newmode, noexif) ==
    IF a.filename = <<>> THEN SaveOutcome("returned", NoExc, FALSE, 0, 0, 0)
    ELSE
    LET im == IF newmode # "" THEN Convert(a.im, newmode) ELSE a.im
        all == im.n_frames > 1
        part == Upper(LastPart(a.filename))
        fmt == IF part = <<"J", "P", "G">> THEN JPEG ELSE part
        asked == all /\ fmt \notin SAVE_ALL
    IN IF asked /\ ~a.lose_frames THEN SaveOutcome("returned", NoExc, FALSE, 0, 0, 0)
       ELSE
       LET save_all == all /\ ~asked
           ex == SaveTry(im, a.filename, fmt, save_all, noexif)
           n == IF SaveReached(im, a.filename, save_all, noexif) THEN 1 ELSE 0
       IN IF ex = NoExc THEN SaveOutcome("returned", NoExc, TRUE, 1, 0, 0)
          ELSE IF ex.text = EXIF_TOO_LONG /\ a.lose_exif
          THEN With(path_save(a, newmode, TRUE), LAMBDA r :
                 [r EXCEPT !.saves = @ + n, !.noexif = @ + 1])
          ELSE IF ex.text = CANNOT_WRITE_RGBA
          THEN With(path_save(a, "RGB", noexif), LAMBDA r :
                 [r EXCEPT !.saves = @ + n, !.rgb = @ + 1])
          ELSE SaveOutcome("raised", ex, FALSE, n, 0, 0)

\* The optional keys of an image's info.
OptionalKeys == {"exif", "duration", "background"}

\* The images saved: n_frames 0 stands for an image without the attribute.
SaveImages ==
    {im \in [keys : SUBSET OptionalKeys, exif_long : BOOLEAN, mode : {"RGB", "RGBA"},
             n_frames : {0, 1, 2}] : im.exif_long => "exif" \in im.keys}

\* The names the dialog gives, <<>> for a cancel.
SaveNames == {<<>>, <<"o">> \o PNG, <<"o">> \o JPG, <<"o">> \o WEBP, <<"o">> \o GIF}

InitSave ==
    /\ arg \in [im : SaveImages, filename : SaveNames, lose_frames : BOOLEAN,
                lose_exif : BOOLEAN]
    /\ ret = NoRet
    /\ NotRunning

\* path_save() from its key.
PathSaveCall ==
    /\ ret = NoRet
    /\ ret' = path_save(arg, "", FALSE)
    /\ UNCHANGED arg
    /\ UNCHANGED appvars

NextSave == PathSaveCall

SpecSave == InitSave /\ [][NextSave]_vars

\* C1: info_decode never raises and always returns a string, whatever the
\* bytes (empty, ASCII marker before non-ASCII bytes, UNICODE marker) and
\* whatever the encoding name (unknown ones included).
C1_InfoDecodeNeverRaises ==
    ret # NoRet => Returned(ret)

\* C2: info_exif returns the empty string when the image's info has no
\* 'exif' key, also when _getexif() gives a non-empty dictionary.
C2_NoExifKeyReturnsEmpty ==
    (ret # NoRet /\ ~Has(arg.im.info, "exif")) => ret = Ret(<<>>)

\* C7: a failure inside an extractor (a corrupt ICC profile, an Orientation
\* outside 1..8, a rendering intent outside 0..3, malformed XMP) never leaves
\* info_get: once the extractors run, info_get returns.
C7_ExtractorFailureContained ==
    (ret # NoRet /\ ret.calls # <<>>) => Returned(ret)

\* out is raw with every NUL replaced by a backslash and a zero: the i-th
\* token of raw stands in out after the tokens before it, each NUL among
\* them taking two places.
NulEscaped(raw, out) ==
    LET nuls(i) == Cardinality({j \in 1..(i - 1) : raw[j] = NUL})
    IN /\ Len(out) = Len(raw) + nuls(Len(raw) + 1)
       /\ \A i \in 1..Len(raw) :
             IF raw[i] = NUL
             THEN out[i + nuls(i)] = "\\" /\ out[i + nuls(i) + 1] = "0"
             ELSE out[i + nuls(i)] = raw[i]

\* C9: the string info_get returns holds no NUL on either return path: it is
\* the text built, with every NUL replaced by a backslash and a zero.
C9_NoNulInReport ==
    Returned(ret) =>
        /\ \A i \in 1..Len(ret.value) : ret.value[i] # NUL
        /\ NulEscaped(ret.msg, ret.value)

\* A report returned for no image whose text held a NUL.
C9_Witness ==
    /\ Returned(ret)
    /\ arg.im.isNone
    /\ \E i \in 1..Len(ret.msg) : ret.msg[i] = NUL

IsPrefix(a, b) == Len(a) <= Len(b) /\ \A i \in 1..Len(a) : a[i] = b[i]

\* The heading each extractor's text starts with, in the order of the claim;
\* the external tool's output has none.
SectionHeadings == <<"EXIF:", "ICC Profile:", "IPTC:", "XMP:", "Photoshop:">>

RECURSIVE JoinSections(_)
\* Each non-empty section preceded by one blank line, in order.
JoinSections(ss) ==
    IF ss = <<>> THEN <<>>
    ELSE (IF Head(ss) # <<>> THEN <<NL, NL>> \o Head(ss) ELSE <<>>) \o JoinSections(Tail(ss))

\* C10: info_get calls the extractors in the order EXIF, ICC, IPTC, XMP,
\* Photoshop, external tool; the report is the header and statistics followed
\* by the non-empty results in that order, each after one blank line, and an
\* empty result adds nothing.
C10_ExtractorOrder ==
    ret # NoRet =>
        /\ IsPrefix(ret.calls, <<"info_exif", "info_icc", "info_iptc", "info_xmp",
                                 "info_psd", "info_exiftool">>)
        /\ (Returned(ret) /\ ~arg.im.isNone) =>
              /\ Len(ret.calls) = 6
              /\ Len(ret.sections) = 6
              /\ \A i \in 1..5 :
                    ret.sections[i] # <<>> =>
                        \/ ret.sections[i][1] = SectionHeadings[i]
                        \/ i = 4 /\ ret.sections[i][1] = "XMP: "
              /\ ret.msg = ret.base \o JoinSections(ret.sections)

\* A report with the EXIF and Photoshop sections and without the ICC one.
C10_Witness ==
    /\ Returned(ret)
    /\ ~arg.im.isNone
    /\ ret.sections[1] # <<>>
    /\ ret.sections[2] = <<>>
    /\ ret.sections[5] # <<>>
    /\ ret.sections[6] # <<>>

\* The container the last handler loaded has no entry after the filter.
LoadedEmpty(kind) ==
    /\ last.loader = kind
    /\ FS(World, last.path).valid
    /\ EntryNames(World, FS(World, last.path)) = <<>>

\* C3: loading a ZIP archive whose name list is empty after the extension
\* filter ends in the 'No image found' condition, not in another error.
C3_EmptyZipNoImageFound ==
    LoadedEmpty("zip") =>
        /\ last.load = "failed"
        /\ last.load_exc.text = "No image found"

\* The MHTML document the last handler loaded has a boundary and parts with
\* headers and data, none of which qualifies.
LoadedNoPart ==
    /\ last.loader = "mhtml"
    /\ FS(World, last.path).valid
    /\ \A i \in 1..Len(FS(World, last.path).parts) :
          /\ FS(World, last.path).parts[i].wellformed
          /\ ~(/\ FS(World, last.path).parts[i].base64
               /\ FS(World, last.path).parts[i].ctype \in {"", "image"})

C5_FailedLoadKeepsState ==
    [][last'.load = "failed" =>
          /\ APP'.im = APP.im
          /\ APP'.info = APP.info
          /\ APP'.i_zip = last'.i_zip]_vars

\* C6: the archive file a TAR or ZIP load opened is closed when the load
\* ends, and no archive file is open between handlers.
C6_ArchiveHandleClosed ==
    last.loader \in {"zip", "tar"} => (~last.held /\ open_archives = 0)

\* C8: when loading fails, at any log level, im_load returns and the error
\* shown names the path.
C8_LoadFailureShown ==
    last.load = "failed" =>
        /\ last.st = "returned"
        /\ title.kind = "error"
        /\ title.path = last.path

\* The image carries no EXIF, ICC, Photoshop, XMP or IPTC data at all.
NoMetadataKeys(im) ==
    /\ ~im.isNone
    /\ im.exif = <<>>
    /\ im.info = <<>>
    /\ im.iptc = <<>>
    /\ im.xmp \in {"absent", "empty"}

\* C11: for an image whose raw metadata has no exif, icc_profile, photoshop
\* or XMP key, once the header is written info_get returns the header and
\* the basic statistics alone: no extractor adds a section, whether or not
\* exiftool is on PATH.
C11_NoKeysNoSections ==
    (ret # NoRet /\ ret.calls # <<>> /\ NoMetadataKeys(arg.im)) =>
        /\ Returned(ret)
        /\ \A i \in 1..Len(ret.sections) : ret.sections[i] = <<>>
        /\ ret.value = EscapeNul(ret.base)

\* The first digit of a run and the last digit before it.
MaximalRun(pre, post) ==
    /\ (pre = <<>> \/ ~IsReDigit(pre[Len(pre)]))
    /\ (post = <<>> \/ ~IsReDigit(post[1]))

\* C12: of two names that differ in one run of digits alone, the one with
\* the smaller number has the smaller key and is sorted first: the pictures
\* 10.jpg, 2.jpg, 1.jpg are sorted to 1.jpg, 2.jpg, 10.jpg.
C12_NumericOrder ==
    /\ (/\ ret # NoRet
        /\ arg.kind = "runs"
        /\ MaximalRun(arg.parts[1], arg.parts[4])
        /\ ParseInt(arg.parts[2], 0) < ParseInt(arg.parts[3], 0))
       => /\ \A i \in 1..2 : Returned(ret.keys[i])
          /\ KeyLess(ret.keys[1].value, ret.keys[2].value)
          /\ Returned(ret)
          /\ ret.value = arg.names
    /\ (ret # NoRet /\ arg.names = << <<"1", "0">> \o DotJpg, <<"2">> \o DotJpg, <<"1">> \o DotJpg>>)
       => /\ Returned(ret)
          /\ ret.value = << <<"1">> \o DotJpg, <<"2">> \o DotJpg, <<"1", "0">> \o DotJpg>>

\* C13: a dot is a segment of its own that ranks below every digit run: for
\* a stem S, a digit run D and an extension E the name S.E has a smaller key
\* than SD.E, a name whose stem lengthens S has a larger key than both, and
\* the three are sorted in that order; koko2.gif, koko 0004.gif, koko.gif are
\* sorted to koko.gif, koko2.gif, koko 0004.gif.
C13_DotBelowDigits ==
    /\ (ret # NoRet /\ arg.kind = "dots" /\ MaximalRun(arg.parts[1], <<>>))
       => /\ \A i \in 1..3 : Returned(ret.keys[i])
          /\ \E j \in 1..Len(ret.keys[3].value) : ret.keys[3].value[j] = PyInt(-1)
          /\ KeyLess(ret.keys[3].value, ret.keys[1].value)
          /\ KeyLess(ret.keys[1].value, ret.keys[2].value)
          /\ Returned(ret)
          /\ ret.value = <<arg.names[3], arg.names[1], arg.names[2]>>
    /\ (ret # NoRet /\ arg.names = <<Koko \o <<"2">> \o DotGif,
                                      Koko \o <<" ", "0", "0", "0", "4">> \o DotGif,
                                      Koko \o DotGif>>)
       => /\ Returned(ret)
          /\ ret.value = <<Koko \o DotGif, Koko \o <<"2">> \o DotGif,
                           Koko \o <<" ", "0", "0", "0", "4">> \o DotGif>>

\* C14: im_load picks the loader from the extension whatever the case of
\* its letters: a path is given the loader of its lower-case form.
C14_LoaderIgnoresCase ==
    ret # NoRet => ret.value = Loader(Lower(arg.path))

\* exiftool ran and what it printed could not be decoded.
ExiftoolDecodeFails(host) ==
    /\ host.tool
    /\ \/ Raised(DecodeAnsiReplace(host.stdout, host.windows))
       \/ Raised(DecodeAnsiReplace(host.stderr, host.windows))

\* C15: when exiftool is not on PATH, or when what it printed cannot be
\* decoded, info_exiftool raises nothing and returns the empty string; and
\* without the tool the report is the header, the statistics and the other
\* extractors' sections.
C15_ExiftoolSilent ==
    (/\ ret # NoRet
     /\ Len(ret.calls) = Len(Extractors)
     /\ (~arg.host.tool \/ ExiftoolDecodeFails(arg.host)))
    => /\ Returned(ret)
       /\ ret.sections[Len(Extractors)] = <<>>
       /\ ret.msg = ret.base \o JoinSections(SubSeq(ret.sections, 1, Len(Extractors) - 1))

\* The labels of the Orientation values 1 to 8.
OrientationLabels ==
    <<"normal", "flip left right", "rotate 180", "flip top bottom",
      "transpose", "rotate 90", "transverse", "rotate 270">>

\* text holds the line "name: value".
HasLine(text, name, value) ==
    \E i \in 1..Len(text) :
        /\ i + 3 <= Len(text)
        /\ text[i] = NL
        /\ text[i + 1] = name
        /\ text[i + 2] = ": "
        /\ text[i + 3] = value
        /\ (i + 3 = Len(text) \/ text[i + 4] = NL)

\* The EXIF blob of the image starts with MM.
BlobStartsMM(im) ==
    /\ Has(im.info, "exif")
    /\ StartsWith(Get(im.info, "exif").val, <<77, 77>>)

\* C16: for an EXIF blob that begins with MM and an Orientation tag of value
\* v in 1..8, the text info_exif returns holds the line "Orientation: "
\* followed by the v-th of the labels normal, flip left right, rotate 180,
\* flip top bottom, transpose, rotate 90, transverse, rotate 270: rotate 90
\* for 6.
C16_OrientationLine ==
    (Returned(ret) /\ BlobStartsMM(arg.im)) =>
        \A i \in 1..Len(arg.im.exif) : \A v \in 1..8 :
            arg.im.exif[i] = [k |-> 274, v |-> PyInt(v)] =>
                HasLine(ret.value, "Orientation", OrientationLabels[v])

\* info_exif returned the line "Orientation: rotate 90" for the value 6
\* behind a blob that begins with MM.
C16_Witness ==
    /\ Returned(ret)
    /\ BlobStartsMM(arg.im)
    /\ \E i \in 1..Len(arg.im.exif) : arg.im.exif[i] = [k |-> 274, v |-> PyInt(6)]
    /\ HasLine(ret.value, "Orientation", "rotate 90")

\* C17: when load_zip or load_tar is entered with an entry index that is not
\* one of the positions 0..n-1 of the filtered and sorted names, too large or
\* negative, APP.i_zip is 0 afterwards and the image decoded is entry 0.
C17_BadIndexReset ==
    (/\ last.loader \in {"zip", "tar"}
     /\ FS(World, last.path).valid
     /\ EntryNames(World, FS(World, last.path)) # <<>>
     /\ last.i_zip \notin 0..(Len(EntryNames(World, FS(World, last.path))) - 1))
    => /\ APP.i_zip = 0
       /\ last.load = "ok" => APP.im.name = EntryNames(World, FS(World, last.path))[1]

\* The decodings info_decode is to try behind the UNICODE marker, in order.
UnicodeOrder(encoding) == <<"utf-16-be", "utf-16-le", encoding, "utf8">>

\* C18: behind the UNICODE marker info_decode drops the eight bytes of the
\* marker and tries UTF-16 big-endian, UTF-16 little-endian, the caller's
\* encoding and UTF-8 in that order; it returns what the first decoding that
\* succeeds gives, and takes the permissive single-byte path only when none
\* of the four succeeds.
C18_UnicodeDecodingOrder ==
    (ret # NoRet /\ arg.b.kind = "bytes" /\ StartsWith(arg.b.val, UNICODE_MARK)) =>
        LET payload == Drop(arg.b.val, 8)
            tried == [i \in 1..4 |->
                        DecodeCall(payload, UnicodeOrder(arg.encoding)[i], arg.windows)]
            good == {i \in 1..4 : Returned(tried[i])}
        IN IF good # {}
           THEN ret = tried[CHOOSE i \in good : \A j \in good : i <= j]
           ELSE ret = DecodeAnsi(payload, arg.windows)

\* The header fields of a part: of every header line with a colon, the name
\* before it and the value after it without leading blanks, both in lower
\* case.
HeaderFields(p) ==
    { [name |-> Lower(SubSeq(l, 1, c - 1)),
       value |-> Lower(Strip(SubSeq(l, c + 1, Len(l))))] :
        <<l, c>> \in { lc \in Lines(Strip(PartMeta(p))) \X (1..Len(p)) :
                         /\ lc[2] <= Len(lc[1])
                         /\ lc[1][lc[2]] = ":"
                         /\ \A j \in 1..(lc[2] - 1) : lc[1][j] # ":" } }

\* The values a part's headers give the field of that name.
Declared(p, name) == {f.value : f \in {g \in HeaderFields(p) : g.name = Lower(name)}}

\* The part declares the base64 transfer encoding and either no content type
\* or an image one.
DeclaresImagePart(p) ==
    /\ BASE64 \in Declared(p, CONTENT_TRANSFER_ENCODING)
    /\ \/ Declared(p, CONTENT_TYPE) = {}
       \/ \E v \in Declared(p, CONTENT_TYPE) : StartsWith(v, <<"i", "m", "a", "g", "e", "/">>)

\* C19: load_mhtml keeps a part exactly when its headers declare
\* Content-Transfer-Encoding: base64 and either no Content-Type or an image
\* one: the names it lists are those of these parts, in order, and with no
\* such part it lists none and raises 'No image found'.
C19_KeptPartsAreImageParts ==
    ret # NoRet =>
        LET want == SelectSeq(arg.parts, DeclaresImagePart)
        IN IF want = <<>>
           THEN ret.st = "raised" /\ ret.exc.text = "No image found" /\ ~ret.hasNames
           ELSE /\ ret.hasNames
                /\ ret.Names = [i \in 1..Len(want) |-> MetaName(PartMeta(want[i]))]

\* The part passes the header tests of load_mhtml.
KeptPart(p) == Qualifies(ReadPart(p))

\* The name the Content-Location of a drawn part ends with, by its data.
LocationName(p) ==
    IF Contains(p, <<PngData>>) THEN <<"1">> \o PNG ELSE <<"2">> \o GIF

\* C20: the names load_mhtml lists are those of the parts it keeps, one for
\* each and in their order, and for an entry index i that is a position of
\* the list the image is decoded from the data of the i-th part kept and
\* carries its name: with two image/png parts kept, index 0 gives the first
\* one's picture.
C20_EntryIsIthKeptPart ==
    (ret # NoRet /\ \E i \in 1..Len(arg.parts) : KeptPart(arg.parts[i])) =>
        LET kept == SelectSeq(arg.parts, KeptPart)
        IN /\ ret.hasNames
           /\ ret.Names = [k \in 1..Len(kept) |-> LocationName(kept[k])]
           /\ (arg.i_zip >= 0 /\ arg.i_zip < Len(kept)) =>
                 /\ ret.st = "returned"
                 /\ ret.im.name = LocationName(kept[arg.i_zip + 1])
                 /\ ret.im.n_frames = IF Contains(kept[arg.i_zip + 1], <<PngData>>)
                                      THEN 1 ELSE 2

\* Two parts were kept, a PNG and then a GIF, and entry 1 was loaded: the
\* picture is the GIF of the second part.
C20_Witness ==
    /\ ret.st = "returned"
    /\ Len(arg.parts) = 2
    /\ KeptPart(arg.parts[1])
    /\ KeptPart(arg.parts[2])
    /\ Contains(arg.parts[1], <<PngData>>)
    /\ Contains(arg.parts[2], <<GifData>>)
    /\ arg.i_zip = 1
    /\ ret.im.name = <<"2">> \o GIF
    /\ ret.im.n_frames = 2

\* C21: the text info_exif returns names the byte order big-endian exactly
\* when the first two bytes of the blob under im.info["exif"] are MM, and
\* little-endian otherwise: MM further on in the blob does not make it
\* big-endian.
C21_ByteOrderFromFirstTwo ==
    (Returned(ret) /\ ret.value # <<>>) =>
        /\ ret.value[4] \in {"big", "little"}
        /\ ret.value[4] = "big" <=> BlobStartsMM(arg.im)

\* C22: when the text holds a viewBox, the size load_svg uses for the fit
\* ratio and the injected scale is the size of that viewBox, its third and
\* fourth number, also when the svg tag has a width and a height; width and
\* height are used only without a viewBox.
C22_ViewBoxBeforeWidthHeight ==
    (Returned(ret) /\ FindViewBox(arg.data) # <<>>) =>
        ret.value.size = ViewBoxSize(arg.data).value

\* The file and the container entry a title or a report names.
EntryOf(text) == [path |-> text.path, entry |-> text.entry]

\* C23: while the info overlay is showing a report and an image is
\* displayed, the report is the one of the displayed file and container
\* entry: im_show computes it anew whenever the entry displayed is another
\* one than the entry of the last report.
C23_ReportOfDisplayedEntry ==
    (APP.showing = "info" /\ title.kind = "image" /\ CANVAS.text.kind = "image") =>
        EntryOf(CANVAS.text) = EntryOf(title)

\* C24: a browse call made with a non-empty path list outside archive
\* browsing, whatever the position asked for, negative and too large ones
\* included, leaves APP.i_path one of the positions 0..len(paths)-1 and
\* APP.i_zip 0; a step forward from the last path selects the first and a
\* step back from the first selects the last.
C24_PathIndexStaysValid ==
    (last.browse.called /\ ~last.browse.archive) =>
        /\ APP.i_path \in 0..(Len(APP.paths) - 1)
        /\ APP.i_zip = 0
        /\ last.browse.new_index = Len(APP.paths) => APP.i_path = 0
        /\ last.browse.new_index = -1 => APP.i_path = Len(APP.paths) - 1

\* Outside archive browsing, a step back from the first of several paths
\* has selected the last one.
C24_Witness ==
    /\ last.browse.called
    /\ ~last.browse.archive
    /\ last.browse.new_index = -1
    /\ Len(APP.paths) > 1
    /\ APP.i_path = Len(APP.paths) - 1
    /\ APP.i_zip = 0

\* C25: with archive browsing on, after a browse call whose container load
\* succeeded, APP.i_zip is one of the positions 0..len(Names)-1 of the entry
\* list, and the title names that position and the entry that was decoded.
C25_EntryIndexAndTitle ==
    (/\ last.browse.called
     /\ APP.browse_archives
     /\ last.load = "ok"
     /\ last.loader \in {"zip", "tar", "mhtml"}) =>
        /\ APP.i_zip \in 0..(Len(APP.info.Names) - 1)
        /\ title.zip_pos = APP.i_zip + 1
        /\ title.entry = APP.info.Names[APP.i_zip + 1]
        /\ APP.im.name = title.entry

\* C26: with archive browsing on and a container displayed, a step forward
\* from the last entry selects the next path, the first one after the last,
\* and a step back from the first entry selects the previous path, the last
\* one before the first, both with the entry index 0; a step from another
\* entry, and every other position asked for, leaves APP.i_path as it was.
C26_ArchiveStepping ==
    [][ /\ (Started /\ InArchive(World) /\ BrowseNext) =>
              IF APP.i_zip = Len(APP.info.Names) - 1
              THEN /\ APP'.i_path = (APP.i_path + 1) % Len(APP.paths)
                   /\ APP'.i_zip = 0
              ELSE APP'.i_path = APP.i_path
        /\ (Started /\ InArchive(World) /\ BrowsePrev) =>
              IF APP.i_zip = 0
              THEN /\ APP'.i_path = (APP.i_path - 1) % Len(APP.paths)
                   /\ APP'.i_zip = 0
              ELSE APP'.i_path = APP.i_path
        /\ (/\ Started
            /\ InArchive(World)
            /\ last'.browse.called
            /\ last'.browse.new_index \notin {-1, Len(APP.info.Names)}) =>
              APP'.i_path = APP.i_path ]_vars

\* C27: at most one callback of slideshow_run is pending at any time,
\* whatever the order of the slideshow_toggle keys and the timers firing.
C27_OneSlideshowTimer == Cardinality(Pending("slideshow_run")) <= 1

\* The pending callbacks of im_resize that advance the frame when they fire.
LoopTimers == {t \in Pending("im_resize") : t.loop}

\* C28 as stated: once animation is off no callback of im_resize changes
\* APP.im_frame, and at most one callback of im_resize is pending.
C28_NoFrameAfterOff ==
    [][/\ Cardinality(Pending("im_resize"))' <= 1
       /\ (~APP.b_animate /\ AnimationTimer) => APP'.im_frame = APP.im_frame]_vars

\* C28, amended: at most one callback of im_resize is pending; while
\* animation stays off no callback that advances the frame is scheduled, and
\* a callback that changes APP.im_frame is the one that was pending with
\* loop true and leaves none behind: the frame advances once more, to the
\* frame animation_toggle announced, and then stays.
C28_OneMoreFrameAfterOff ==
    [][/\ Cardinality(Pending("im_resize"))' <= 1
       /\ (~APP.b_animate /\ ~APP'.b_animate) =>
             /\ LoopTimers' \subseteq LoopTimers
             /\ (APP'.im_frame # APP.im_frame /\ AnimationTimer) =>
                   LoopTimers # {} /\ LoopTimers' = {}]_vars

\* Animation is off, the callback that was pending has advanced the frame of
\* a multi-frame image and the one it scheduled will not.
C28_Witness ==
    /\ ~APP.b_animate
    /\ ~APP.im.isNone
    /\ APP.im.n_frames > 1
    /\ APP.im_frame = 1
    /\ Pending("im_resize") # {}
    /\ LoopTimers = {}

\* C30: with a file name chosen and the questions answered with OK,
\* path_save reaches im.save and reports 'Saved' whichever of exif, duration
\* and background the image's info has, and enters each retry at most once.
C30_SavedWhateverKeys ==
    (ret # NoRet /\ arg.filename # <<>> /\ arg.lose_frames /\ arg.lose_exif) =>
        /\ ret.saved
        /\ ret.noexif <= 1
        /\ ret.rgb <= 1

\* The index the search is to select: the first after start, in cyclic
\* order, whose entry contains s, and start itself when none does.
NextMatch(arr, start, s) ==
    LET n == Len(arr)
        ks == {k \in 1..n : Contains(arr[((start + k) % n) + 1], s)}
    IN IF ks = {} THEN start ELSE (start + Least(ks)) % n

\* C29: browse_search ends after examining at most len(arr) entries and asks
\* browse for the first match after the current entry in cyclic order; with
\* no match at all it reports 'not found' and asks for the current entry.
C29_SearchEndsAtNextMatch ==
    last.search.called =>
        /\ last.search.ended
        /\ last.search.examined <= Len(last.search.arr)
        /\ last.browse.called
        /\ last.browse.new_index =
               NextMatch(last.search.arr, last.search.start, last.search.s)
        /\ last.search.toast =
               (\A k \in 1..Len(last.search.arr) : ~Contains(last.search.arr[k], last.search.s))

====
